---- MODULE Spec2Model ----
(***************************************************************************)
(* Model of the CropCart browser client: the guest cart cache kept in     *)
(* localStorage (scripts/utils.js), its reconciliation into the server    *)
(* cart at login (syncGuestCartToServer) and the login submit handler     *)
(* that starts it.                                                        *)
(*                                                                         *)
(* JavaScript values that reach the quantity arithmetic are records       *)
(* [k, tw]: k is the kind ("num", "nan", "inf", "null", "undef") and, for *)
(* a number, tw is twice its value, so that halves (2.5) are values and   *)
(* Math.floor has something to do.                                        *)
(***************************************************************************)
EXTENDS Integers, Sequences, FiniteSets, TLC

VARIABLES
    lsGuest,    \* localStorage["cc_guest_cart"]: [kind, items]
    sessAuth,   \* sessionStorage["cc_auth"]: the access token stored, or NoAuth
    localAuth,  \* localStorage["cc_auth"]: the access token stored, or NoAuth
    last,       \* the last call of the cache made directly: [op, id, arg],
                \* before, the storage it found, seen, the storage a listener
                \* found at each notification, fault, the state localStorage
                \* was in, and threw, whether the call raised
    pc,         \* position of syncGuestCartToServer / the login handler
    entries,    \* sync: the snapshot taken by listGuestItems()
    idx,        \* sync: index in entries of the request in flight
    synced,     \* sync: the success counter
    result,     \* sync: the value returned, [synced, attempted, unauthorized]
    reqLog,     \* the add requests of this sync run, with the status answered
    startCart,  \* localStorage["cc_guest_cart"] when this sync run was called
    delivered,  \* per key, quantity carried by successful adds since the
                \* guest cart was last written by a guest-cart call
    runs,       \* sync runs that sent a request since then
    audit,      \* whether delivered and runs are kept (SpecAudit) or left
                \* at 0 (the other specifications)
    pageStore,  \* what the other storage keys the pages read hold:
                \* [address, pending]
    lastReq,    \* the last request sent through apiFetch: its Authorization
                \* header, and what getAuth and isLoggedIn gave when it was sent
    page        \* the state of the page loaded besides the above (checkout,
                \* authenticated cart, store favorites, account, route guard):
                \* a record whose field name names the page

vars == <<lsGuest, sessAuth, localAuth, last, pc, entries, idx, synced,
          result, reqLog, startCart, delivered, runs, audit, pageStore,
          lastReq, page>>

cacheVars == <<lsGuest, last>>
authVars == <<sessAuth, localAuth>>
syncVars == <<pc, entries, idx, synced, result, reqLog, startCart, delivered,
              runs, audit>>

(***************************************************************************)
(* Bounds                                                                  *)
(***************************************************************************)
MaxQty == 3         \* largest finite quantity an entry is allowed to reach
MaxRuns == 2        \* sync runs allowed over one unchanged guest cart

(***************************************************************************)
(* JavaScript values                                                       *)
(***************************************************************************)
Num(n) == [k |-> "num", tw |-> 2 * n]
Half(t) == [k |-> "num", tw |-> t]
NaN == [k |-> "nan", tw |-> 0]
Infinity == [k |-> "inf", tw |-> 0]
JNull == [k |-> "null", tw |-> 0]
Undef == [k |-> "undef", tw |-> 0]

\* Number(x): null is 0, undefined and non-numeric text are NaN
ToNumber(x) ==
    CASE x.k = "null" -> Num(0)
      [] x.k = "undef" -> NaN
      [] OTHER -> x

\* truthiness of a number: 0 and NaN are falsy
Truthy(x) == ~(x.k \in {"nan", "null", "undef"} \/ (x.k = "num" /\ x.tw = 0))

\* x || d
OrElse(x, d) == IF Truthy(x) THEN x ELSE d

\* x ?? d
Coalesce(x, d) == IF x.k \in {"null", "undef"} THEN d ELSE x

MathFloor(x) == IF x.k = "num" THEN Half(2 * (x.tw \div 2)) ELSE x

\* Math.max(a, x) for an integer a
MathMax(a, x) ==
    CASE x.k = "nan" -> NaN
      [] x.k = "inf" -> Infinity
      [] OTHER -> IF x.tw > 2 * a THEN x ELSE Num(a)

\* a + b on numbers
Plus(a, b) ==
    CASE a.k = "nan" \/ b.k = "nan" -> NaN
      [] a.k = "inf" \/ b.k = "inf" -> Infinity
      [] OTHER -> Half(a.tw + b.tw)

\* x <= 0
LeqZero(x) == x.k = "num" /\ x.tw <= 0

\* JSON.parse(JSON.stringify(x)) of a number: Infinity and NaN are written
\* as null
JsonNumber(x) == IF x.k \in {"inf", "nan", "undef"} THEN JNull ELSE x

\* the integer a finite whole number stands for
IntOf(x) == x.tw \div 2

IsPosInt(x) == x.k = "num" /\ x.tw > 0 /\ x.tw % 2 = 0

(***************************************************************************)
(* Stored text and JSON.parse                                              *)
(***************************************************************************)
\* what a storage key holds: nothing (getItem returns null), a text that
\* is no JSON, or the JSON text of an object
RawKinds == {"absent", "malformed", "json"}

\* JSON.parse(raw || "null"): throws on a text that is no JSON, gives null
\* for a missing value
JsonParse(kind) == [threw |-> kind = "malformed", isNull |-> kind # "json"]

\* a parse whose exception nobody catches
Uncaught(attempt) == attempt

\* try { return <attempt> } catch { return <the null default> }
Caught(attempt) ==
    [threw |-> FALSE, isNull |-> attempt.threw \/ attempt.isNull]

\* safeJsonParse(raw || "null", null)
safeJsonParse(kind) == Caught(JsonParse(kind))

\* no page of the kinds followed in page is loaded
NoPage == [name |-> "none"]

\* the other keys hold nothing
NoPageStore == [address |-> "absent", pending |-> "absent"]

(***************************************************************************)
(* Guest cart cache                                                        *)
(***************************************************************************)
NoItems == [x \in {} |-> 0]
AbsentCart == [kind |-> "absent", items |-> NoItems]

\* toGuestProductSnapshot: id and price are run through Number(), a missing
\* field is 0 (the display strings are left out)
toGuestProductSnapshot(rawProduct) ==
    [id |-> ToNumber(Coalesce(rawProduct.id, Num(0))),
     price |-> ToNumber(Coalesce(rawProduct.price, Num(0)))]

\* a normalization that reads one unit less than was stored
NormQtyShort(v) ==
    MathMax(0, MathFloor(Plus(OrElse(ToNumber(v.qty), Num(0)), Num(-1))))

\* the normalized quantity getGuestCart computes for a stored entry
NormQty(v) == MathMax(0, MathFloor(OrElse(ToNumber(v.qty), Num(0))))

\* getGuestCart().items: entries whose quantity normalizes to 0 are dropped
getGuestCart(ls) ==
    LET items == IF safeJsonParse(ls.kind).isNull THEN NoItems ELSE ls.items
        kept == {key \in DOMAIN items : ~LeqZero(NormQty(items[key]))}
    IN [key \in kept |->
          LET product == toGuestProductSnapshot(items[key].product)
          IN [qty |-> NormQty(items[key]),
              product |-> IF ~Truthy(product.id)
                          THEN [product EXCEPT !.id = Num(key)]
                          ELSE product]]

\* what JSON.stringify writes and JSON.parse reads back for the items map
JsonItems(items) ==
    [key \in DOMAIN items |->
        [qty |-> JsonNumber(items[key].qty),
         product |-> [id |-> JsonNumber(items[key].product.id),
                      price |-> JsonNumber(items[key].product.price)]]]

\* setGuestCart: the storage value after the write
setGuestCart(items) == [kind |-> "json", items |-> JsonItems(items)]

\* clearGuestCart: the key is removed
clearGuestCart == AbsentCart

\* the items map with key set to entry
Put(items, key, entry) ==
    [x \in DOMAIN items \cup {key} |-> IF x = key THEN entry ELSE items[x]]

\* the items map without key
Delete(items, key) == [x \in DOMAIN items \ {key} |-> items[x]]

\* the quantity addGuestItem adds
AddQty(qtyToAdd) ==
    LET arg == IF qtyToAdd.k = "undef" THEN Num(1) ELSE qtyToAdd
    IN MathMax(1, MathFloor(OrElse(ToNumber(arg), Num(1))))

\* addGuestItem that overwrites the quantity instead of adding to it
addGuestItemOverwrite(ls, rawProduct, qtyToAdd) ==
    LET snap == toGuestProductSnapshot(rawProduct)
        cart == getGuestCart(ls)
    IN IF ~Truthy(snap.id) THEN ls
       ELSE setGuestCart(Put(cart, IntOf(snap.id),
                [qty |-> AddQty(qtyToAdd), product |-> snap]))

\* addGuestItem: the storage value after the call
addGuestItem(ls, rawProduct, qtyToAdd) ==
    LET snap == toGuestProductSnapshot(rawProduct)
        cart == getGuestCart(ls)
        id == IntOf(snap.id)
        current == IF id \in DOMAIN cart /\ Truthy(cart[id].qty)
                   THEN cart[id].qty ELSE Num(0)
    IN IF ~Truthy(snap.id) THEN ls
       ELSE setGuestCart(Put(cart, id,
                [qty |-> Plus(current, AddQty(qtyToAdd)), product |-> snap]))

\* the quantity setGuestItemQty sets
SetQty(nextQty) == MathMax(0, MathFloor(OrElse(ToNumber(nextQty), Num(0))))

\* setGuestItemQty that writes the quantity 0 instead of deleting the entry
setGuestItemQtyNoDelete(ls, productId, nextQty) ==
    LET qty == SetQty(nextQty)
        cart == getGuestCart(ls)
    IN IF productId = 0 THEN ls
       ELSE IF productId \in DOMAIN cart
            THEN setGuestCart([cart EXCEPT ![productId].qty = qty])
       ELSE setGuestCart(cart)

\* setGuestItemQty that creates the entry when there is none
setGuestItemQtyCreate(ls, productId, nextQty) ==
    LET qty == SetQty(nextQty)
        cart == getGuestCart(ls)
    IN IF productId = 0 THEN ls
       ELSE IF LeqZero(qty) THEN setGuestCart(Delete(cart, productId))
       ELSE setGuestCart(Put(cart, productId,
                [qty |-> qty,
                 product |-> [id |-> Num(productId), price |-> Num(0)]]))

\* setGuestItemQty: the storage value after the call; productId 0 stands
\* for every falsy id (0, "", null, undefined)
setGuestItemQty(ls, productId, nextQty) ==
    LET qty == SetQty(nextQty)
        cart == getGuestCart(ls)
    IN IF productId = 0 THEN ls
       ELSE IF LeqZero(qty) THEN setGuestCart(Delete(cart, productId))
       ELSE IF productId \in DOMAIN cart
            THEN setGuestCart([cart EXCEPT ![productId].qty = qty])
       ELSE setGuestCart(cart)

\* removeGuestItem that leaves one unit in the cart
removeGuestItemKeepOne(ls, productId) == setGuestItemQty(ls, productId, Num(1))

removeGuestItem(ls, productId) == setGuestItemQty(ls, productId, Num(0))

\* Object.values() order of the items map: the keys that are array indices
\* (the positive product ids) ascending, then the other keys in insertion
\* order; BadId is the only such key of the model, so it comes last
BadId == -1

RECURSIVE Ascending(_)
Ascending(S) ==
    IF S = {} THEN <<>>
    ELSE LET m == CHOOSE x \in S : \A y \in S : x <= y
         IN <<m>> \o Ascending(S \ {m})

KeyOrder(S) ==
    Ascending({x \in S : x > 0}) \o (IF BadId \in S THEN <<BadId>> ELSE <<>>)

\* listGuestItems: the entries of getGuestCart in listing order
listGuestItems(ls) ==
    LET cart == getGuestCart(ls)
        order == KeyOrder(DOMAIN cart)
    IN [i \in 1..Len(order) |->
          [qty |-> OrElse(ToNumber(cart[order[i]].qty), Num(0)),
           product |-> cart[order[i]].product]]

\* a * b on numbers (0 * Infinity is NaN)
Times(a, b) ==
    CASE a.k = "nan" \/ b.k = "nan" -> NaN
      [] a.k = "inf" \/ b.k = "inf" ->
            IF (a.k = "num" /\ a.tw = 0) \/ (b.k = "num" /\ b.tw = 0)
            THEN NaN ELSE Infinity
      [] OTHER -> Half((a.tw * b.tw) \div 2)

\* the reduce of guestSubtotal over the rows from i on
RECURSIVE SubtotalFrom(_, _)
SubtotalFrom(rows, i) ==
    IF i > Len(rows) THEN Num(0)
    ELSE Plus(Times(OrElse(ToNumber(rows[i].product.price), Num(0)),
                    OrElse(ToNumber(rows[i].qty), Num(0))),
              SubtotalFrom(rows, i + 1))

\* a subtotal that counts the units and leaves the prices out
guestSubtotalUnits(ls) ==
    SubtotalFrom([i \in 1..Len(listGuestItems(ls)) |->
                    [qty |-> listGuestItems(ls)[i].qty,
                     product |-> [id |-> listGuestItems(ls)[i].product.id,
                                  price |-> Num(1)]]], 1)

\* guestSubtotal: price * qty summed over listGuestItems()
guestSubtotal(ls) == SubtotalFrom(listGuestItems(ls), 1)

(***************************************************************************)
(* The storage calls and the notification a call of the cache makes, in    *)
(* the order of its statements                                             *)
(***************************************************************************)
\* the state of localStorage: working, refusing writes (quota exceeded), or
\* refusing every access (storage disabled)
Faults == {"none", "quota", "disabled"}

GetItem == [stmt |-> "getItem", value |-> AbsentCart]
SetItem(written) == [stmt |-> "setItem", value |-> written]
RemoveItem == [stmt |-> "removeItem", value |-> AbsentCart]
Dispatch == [stmt |-> "dispatch", value |-> AbsentCart]

\* whether localStorage throws on a statement
Throws(st, fault) ==
    \/ fault = "disabled" /\ st.stmt \in {"getItem", "setItem", "removeItem"}
    \/ fault = "quota" /\ st.stmt = "setItem"

\* the statements run one after the other from storage value store on: the
\* storage value left, the storage value a cc:cart-changed listener found
\* at each dispatch, and whether a statement threw; nothing in these
\* functions catches, so a throw ends the call
RECURSIVE Exec(_, _, _, _)
Exec(store, seen, steps, fault) ==
    IF steps = <<>> THEN [store |-> store, seen |-> seen, threw |-> FALSE]
    ELSE LET st == Head(steps)
         IN IF Throws(st, fault)
            THEN [store |-> store, seen |-> seen, threw |-> TRUE]
            ELSE CASE st.stmt = "setItem" ->
                         Exec(st.value, seen, Tail(steps), fault)
                   [] st.stmt = "removeItem" ->
                         Exec(clearGuestCart, seen, Tail(steps), fault)
                   [] st.stmt = "dispatch" ->
                         Exec(store, Append(seen, store), Tail(steps), fault)
                   [] OTHER -> Exec(store, seen, Tail(steps), fault)

\* a setGuestCart that notifies before it writes
setGuestCartNotifyFirst(written) == <<Dispatch, SetItem(written)>>

\* setGuestCart: setItem, then dispatchEvent
setGuestCartSteps(written) == <<SetItem(written), Dispatch>>

\* clearGuestCart: removeItem, then dispatchEvent
clearGuestCartSteps == <<RemoveItem, Dispatch>>

\* addGuestItem: return on a falsy id, else getGuestCart and setGuestCart
addGuestItemSteps(ls, rawProduct, qtyToAdd) ==
    IF ~Truthy(toGuestProductSnapshot(rawProduct).id) THEN <<>>
    ELSE <<GetItem>> \o setGuestCartSteps(addGuestItem(ls, rawProduct, qtyToAdd))

\* setGuestItemQty: return on a falsy id, else getGuestCart and setGuestCart
setGuestItemQtySteps(ls, productId, nextQty) ==
    IF productId = 0 THEN <<>>
    ELSE <<GetItem>> \o setGuestCartSteps(setGuestItemQty(ls, productId, nextQty))

\* removeGuestItem: the statements of setGuestItemQty(productId, 0)
removeGuestItemSteps(ls, productId) ==
    IF productId = 0 THEN <<>>
    ELSE <<GetItem>> \o setGuestCartSteps(removeGuestItem(ls, productId))

(***************************************************************************)
(* Inputs                                                                  *)
(***************************************************************************)
\* products a caller hands to addGuestItem: two catalog products, one with
\* a negative id, one with id 0, one with a non-numeric id, one without id
Catalog == {[id |-> Num(1), price |-> Num(1)],
            [id |-> Num(2), price |-> Num(2)],
            [id |-> Num(BadId), price |-> Num(1)],
            [id |-> Num(0), price |-> Num(1)],
            [id |-> NaN, price |-> Num(1)],
            [id |-> Undef, price |-> Num(1)]}

\* keys a caller hands to setGuestItemQty / removeGuestItem (0: a falsy id)
IdArgs == {1, 2, BadId, 0}

\* quantity arguments: -1, 0, 1, 2, the halves 0.5 and 2.5, a non-numeric
\* value, Infinity and a left-out argument
QtyArgs == {Num(-1), Num(0), Num(1), Num(2), Half(1), Half(5),
            NaN, Infinity, Undef}

\* the finite quantities of a stored cart stay within the model's bound
WithinBound(ls) ==
    \A key \in DOMAIN ls.items :
        ls.items[key].qty.k = "num" => ls.items[key].qty.tw <= 2 * MaxQty

KeyOf(rawId) ==
    LET n == ToNumber(Coalesce(rawId, Num(0)))
    IN IF n.k = "num" THEN IntOf(n) ELSE 0

(***************************************************************************)
(* Auth session store                                                      *)
(***************************************************************************)
NoAuth == ""

\* a stored text that is no JSON
Malformed == "{"

\* the kind of text an auth key holds
AuthKind(raw) ==
    CASE raw = NoAuth -> "absent"
      [] raw = Malformed -> "malformed"
      [] OTHER -> "json"

\* sessionRaw || localRaw
AuthRaw(sess, loc) == IF sess # NoAuth THEN sess ELSE loc

\* getAuth(): the parse of sessionRaw || localRaw || "null" under try/catch
readAuth(sess, loc) == Caught(JsonParse(AuthKind(AuthRaw(sess, loc))))

\* getAuth()?.access: the token of the blob read, the session-scoped one
\* preferred
getAuth(sess, loc) ==
    IF readAuth(sess, loc).isNull THEN NoAuth ELSE AuthRaw(sess, loc)

\* getLocalAddress(): raw ? JSON.parse(raw) : null under try/catch
getLocalAddress(kind) ==
    Caught(IF kind = "absent" THEN [threw |-> FALSE, isNull |-> TRUE]
           ELSE JsonParse(kind))

\* the read of the pending-order marker in handleStripeReturnIfAny:
\* JSON.parse(raw || "null") under try/catch
readPendingOrder(kind) == Caught(JsonParse(kind))

isLoggedIn(sess, loc) == getAuth(sess, loc) # NoAuth

\* a header that looks at the session-scoped blob only
authHeaderSessionOnly(sess, loc) ==
    IF sess = NoAuth THEN <<>> ELSE <<"Bearer", sess>>

\* authHeader(): the Authorization header apiFetch spreads into a request,
\* <<>> for the empty map
authHeader(sess, loc) ==
    IF getAuth(sess, loc) = NoAuth THEN <<>>
    ELSE <<"Bearer", getAuth(sess, loc)>>

\* a request sent through apiFetch with the auth storages as given
Sent(sess, loc) ==
    [auth |-> authHeader(sess, loc), access |-> getAuth(sess, loc),
     loggedIn |-> isLoggedIn(sess, loc)]

\* no request has been sent
NoReq == [auth |-> <<>>, access |-> NoAuth, loggedIn |-> FALSE]

\* saveAuth: <<sessionStorage, localStorage>> after the call; a response
\* without access token saves nothing
saveAuth(sess, loc, access, remember) ==
    IF access = NoAuth THEN <<sess, loc>>
    ELSE IF remember THEN <<sess, access>>
    ELSE <<access, loc>>

\* clearAuth: both scopes are emptied
clearAuth == <<NoAuth, NoAuth>>

(***************************************************************************)
(* syncGuestCartToServer                                                   *)
(***************************************************************************)
NoResult == [synced |-> 0, attempted |-> 0, unauthorized |-> FALSE]
AllKeys == {1, 2, 3, BadId}
Pending == 0
NetErr == -1
Statuses == {200, 401, 500}

\* res.ok
IsOk(status) == status >= 200 /\ status <= 299

\* the loop's guard on an entry: a finite product id > 0
Sendable(row) == row.product.id.k = "num" /\ row.product.id.tw > 0

\* the request the loop sends for entry j of the snapshot: its body
\* (product_id, quantity), logged with the entry's index and no answer yet
RequestOfUnit(es, j) ==
    [entry |-> j,
     product_id |-> IntOf(es[j].product.id),
     quantity |-> 1,
     status |-> Pending]

RequestOf(es, j) ==
    [entry |-> j,
     product_id |-> IntOf(es[j].product.id),
     quantity |-> IntOf(MathMax(1, MathFloor(OrElse(ToNumber(es[j].qty), Num(1))))),
     status |-> Pending]

\* the index of the first entry after i the loop does not skip, or
\* Len(es) + 1 when the loop runs out
NextIdx(es, i) ==
    IF \E j \in (i + 1)..Len(es) : Sendable(es[j])
    THEN CHOOSE j \in (i + 1)..Len(es) :
            /\ Sendable(es[j])
            /\ \A m \in (i + 1)..(j - 1) : ~Sendable(es[m])
    ELSE Len(es) + 1

\* a loop that sends the requests of all the entries left without awaiting
RECURSIVE SendAll(_, _)
SendAll(es, i) ==
    IF NextIdx(es, i) > Len(es) THEN <<>>
    ELSE <<RequestOf(es, NextIdx(es, i))>> \o SendAll(es, NextIdx(es, i))

\* the requests the loop sends when it goes on after entry i: the one for
\* the next entry it does not skip, awaited before anything else is sent
SendNext(es, i) ==
    IF NextIdx(es, i) > Len(es) THEN <<>> ELSE <<RequestOf(es, NextIdx(es, i))>>

\* the value returned on a 401
UnauthorizedResult(n, es) ==
    [synced |-> n, attempted |-> Len(es), unauthorized |-> TRUE]

\* the value returned after the loop
LoopResult(n, es) ==
    [synced |-> n, attempted |-> Len(es), unauthorized |-> FALSE]

\* a counter that counts every answered request
CountedAny(n, status) == n + 1

\* the success counter after a response
Counted(n, status) == IF IsOk(status) THEN n + 1 ELSE n

\* the guest cart storage after the loop has run out
AfterLoop(ls) == clearGuestCart

\* a 401 that clears the cache like the end of the loop
AfterUnauthorizedCleared(ls) == clearGuestCart

\* the guest cart storage after a 401 stopped the loop
AfterUnauthorized(ls) == ls

SetStatus(log, status) == [log EXCEPT ![Len(log)].status = status]

\* the loop goes on after entry i (with n successes so far): it sends the
\* next request or, when it has run out, clears the cache and returns
Continue(es, i, n, log) ==
    IF NextIdx(es, i) > Len(es)
    THEN /\ lsGuest' = AfterLoop(lsGuest)
         /\ result' = LoopResult(n, es)
         /\ pc' = "returned"
         /\ idx' = i
         /\ reqLog' = log
    ELSE /\ lsGuest' = lsGuest
         /\ result' = NoResult
         /\ pc' = "awaiting"
         /\ idx' = NextIdx(es, i)
         /\ reqLog' = log \o SendNext(es, i)

\* a guard that only looks at the cache
ZeroEffectNoAuthCheck(sess, loc, list) == Len(list) = 0

\* the guard of the two early returns: not logged in, or nothing cached
ZeroEffect(sess, loc, list) == ~isLoggedIn(sess, loc) \/ Len(list) = 0

(***************************************************************************)
(* Guest-cart calls                                                        *)
(***************************************************************************)
\* the bookkeeping of delivered quantities starts again when the cart changes
Bookkeeping ==
    IF lsGuest' = lsGuest
    THEN UNCHANGED <<delivered, runs>>
    ELSE delivered' = [key \in AllKeys |-> 0] /\ runs' = 0

\* a call of the cache made directly, on a localStorage in state fault:
\* its statements are run, and last records the call, the storage it
\* found, what a listener found at each notification and whether it threw
Call(op, id, arg, steps, fault) ==
    /\ pc = "idle"
    /\ LET run == Exec(lsGuest, <<>>, steps, fault)
       IN /\ WithinBound(run.store)
          /\ lsGuest' = run.store
          /\ last' = [op |-> op, id |-> id, arg |-> arg, before |-> lsGuest,
                      seen |-> run.seen, fault |-> fault, threw |-> run.threw]
    /\ Bookkeeping
    /\ UNCHANGED <<authVars, pc, entries, idx, synced, result, reqLog, startCart,
                   audit, pageStore, page, lastReq>>

AddGuestItemOn(fault, rawProduct, qtyToAdd) ==
    Call("add", KeyOf(rawProduct.id), qtyToAdd,
         addGuestItemSteps(lsGuest, rawProduct, qtyToAdd), fault)

SetGuestItemQtyOn(fault, productId, nextQty) ==
    Call("set", productId, nextQty,
         setGuestItemQtySteps(lsGuest, productId, nextQty), fault)

RemoveGuestItemOn(fault, productId) ==
    Call("remove", productId, Num(0),
         removeGuestItemSteps(lsGuest, productId), fault)

ClearGuestCartOn(fault) ==
    Call("clear", 0, Num(0), clearGuestCartSteps, fault)

\* the calls on a working localStorage
AddGuestItem(rawProduct, qtyToAdd) == AddGuestItemOn("none", rawProduct, qtyToAdd)

SetGuestItemQty(productId, nextQty) == SetGuestItemQtyOn("none", productId, nextQty)

RemoveGuestItem(productId) == RemoveGuestItemOn("none", productId)

ClearGuestCart == ClearGuestCartOn("none")

(***************************************************************************)
(* Store and cart pages: the handlers that reach the guest cart            *)
(***************************************************************************)
\* handleAddToCart on a product of the fetched catalog: a visitor who is
\* not logged in gets the product cached; the logged-in branch posts to
\* the server cart through apiRequest and leaves the guest cart alone
HandleAddToCart(key, n) ==
    /\ pc = "idle"
    /\ IF ~isLoggedIn(sessAuth, localAuth)
       THEN /\ LET written == addGuestItem(lsGuest,
                              [id |-> Num(key), price |-> Num(1)], AddQty(Num(n)))
               IN WithinBound(written) /\ lsGuest' = written
            /\ Bookkeeping
            /\ UNCHANGED lastReq
       ELSE /\ lastReq' = Sent(sessAuth, localAuth)
            /\ UNCHANGED <<lsGuest, delivered, runs>>
    /\ UNCHANGED <<authVars, last, pc, entries, idx, synced, result, reqLog,
                   startCart, audit, pageStore, page>>

\* the remove button of a guest cart row
GuestRemoveClick(key) ==
    /\ pc = "idle"
    /\ lsGuest' = removeGuestItem(lsGuest, key)
    /\ Bookkeeping
    /\ UNCHANGED <<authVars, last, pc, entries, idx, synced, result, reqLog,
                   startCart, audit, pageStore, page, lastReq>>

(***************************************************************************)
(* Return-to bookkeeping and the route guard                               *)
(***************************************************************************)
\* no value under cc_returnTo (getItem returns null)
NoReturnTo == ""

\* the files a tab can show; "" is a pathname that ends with "/"
Files == {"", "index.html", "login.html", "account.html", "orders.html",
          "checkout.html", "farmer.html"}

\* data-page of the body of a file
PageOf(file) ==
    CASE file = "login.html" -> "login"
      [] file = "account.html" -> "account"
      [] file = "orders.html" -> "orders"
      [] file = "checkout.html" -> "checkout"
      [] file = "farmer.html" -> "farmer"
      [] OTHER -> "home"

PROTECTED_PAGES == {"orders", "account", "checkout", "farmer"}
AUTH_PAGES == {"login", "register", "auth", "password-reset",
               "password-reset-confirm"}

\* saveReturnToCurrentPage: the last segment of location.pathname, which
\* has no query string, or index.html when the pathname ends with "/"
saveReturnToCurrentPage(loc) ==
    IF loc.file = "" THEN "index.html" ELSE loc.file

\* a consumeReturnTo that leaves the value stored
consumeReturnToKeep(stored, fallback) ==
    [value |-> IF stored = NoReturnTo THEN fallback ELSE stored,
     stored |-> stored]

\* consumeReturnTo: the value read, or the fallback, and the key removed
consumeReturnTo(stored, fallback) ==
    [value |-> IF stored = NoReturnTo THEN fallback ELSE stored,
     stored |-> NoReturnTo]

\* a tab that has just been opened on a file, before the page has run
GuardTab(file, query) ==
    [name |-> "guard",
     loc |-> [file |-> file, query |-> query],
     loaded |-> FALSE,
     returnTo |-> NoReturnTo,
     guarded |-> NoReturnTo,
     wanted |-> NoReturnTo,
     event |-> "opened"]

\* window.location.href = file (a relative URL without query)
Href(p, file, event) ==
    [p EXCEPT !.loc = [file |-> file, query |-> ""], !.loaded = FALSE,
              !.event = event]

\* the login form is on the page shown
OnLoginPage(p) == p.name = "guard" => (p.loaded /\ PageOf(p.loc.file) = "login")

\* the end of the login handler: consumeReturnTo("index.html") and the
\* redirect to what it returned
AfterLoginRedirect(p) ==
    IF p.name = "guard"
    THEN LET got == consumeReturnTo(p.returnTo, "index.html")
         IN [Href(p, got.value, "loginRedirect") EXCEPT
                !.returnTo = got.stored,
                !.wanted = p.guarded,
                !.guarded = NoReturnTo]
    ELSE p

\* the user opens a file of the site in the tab, with or without a query
Navigate(file, query) ==
    /\ page.name = "guard"
    /\ pc = "idle"
    /\ page' = [page EXCEPT !.loc = [file |-> file, query |-> query],
                            !.loaded = FALSE, !.event = "opened"]
    /\ UNCHANGED <<lsGuest, authVars, last, syncVars, pageStore, lastReq>>

\* CC.onReady of page.js: enforcePageAuth; provider is whether the stored
\* user has the provider role
PageLoad(provider) ==
    /\ page.name = "guard"
    /\ pc = "idle"
    /\ ~page.loaded
    /\ LET here == PageOf(page.loc.file)
           loggedIn == isLoggedIn(sessAuth, localAuth)
       IN page' =
            CASE here \in PROTECTED_PAGES /\ ~loggedIn ->
                    [Href(page, "login.html", "guarded") EXCEPT
                        !.returnTo = saveReturnToCurrentPage(page.loc),
                        !.guarded = page.loc.file]
              [] here = "farmer" /\ ~provider ->
                    Href(page, "account.html", "notProvider")
              [] here \in AUTH_PAGES /\ loggedIn ->
                    Href(page, "account.html", "alreadyLoggedIn")
              [] OTHER -> [page EXCEPT !.loaded = TRUE, !.event = "shown"]
    /\ UNCHANGED <<lsGuest, authVars, last, syncVars, pageStore, lastReq>>

\* the log out button of the account menu: logout("index.html")
Logout ==
    /\ page.name = "guard"
    /\ pc = "idle"
    /\ page.loaded
    /\ isLoggedIn(sessAuth, localAuth)
    /\ sessAuth' = clearAuth[1]
    /\ localAuth' = clearAuth[2]
    /\ page' = [Href(page, "index.html", "logout") EXCEPT
                   !.returnTo = NoReturnTo, !.guarded = NoReturnTo]
    /\ UNCHANGED <<lsGuest, last, syncVars, pageStore, lastReq>>

(***************************************************************************)
(* Login page: the submit handler and the sync it awaits                   *)
(***************************************************************************)
\* the form is submitted: POST /auth/login/ is in flight
LoginSubmit ==
    /\ pc = "idle"
    /\ OnLoginPage(page)
    /\ audit => runs < MaxRuns
    /\ pc' = "login"
    /\ lastReq' = Sent(sessAuth, localAuth)
    /\ UNCHANGED <<lsGuest, authVars, last, entries, idx, synced, result,
                   reqLog, startCart, delivered, runs, audit, pageStore, page>>

\* the login request is answered with a non-2xx status or fails: the
\* handler shows the message and ends
LoginFailed ==
    /\ pc = "login"
    /\ pc' = "idle"
    /\ UNCHANGED <<lsGuest, authVars, last, entries, idx, synced, result,
                   reqLog, startCart, delivered, runs, audit, pageStore, page, lastReq>>

\* the login request is answered 2xx: saveAuth
LoginOk(access, remember) ==
    /\ pc = "login"
    /\ sessAuth' = saveAuth(sessAuth, localAuth, access, remember)[1]
    /\ localAuth' = saveAuth(sessAuth, localAuth, access, remember)[2]
    /\ pc' = "saved"
    /\ UNCHANGED <<lsGuest, last, entries, idx, synced, result, reqLog,
                   startCart, delivered, runs, audit, pageStore, page, lastReq>>

\* the handler calls syncGuestCartToServer right after saveAuth: the call
\* runs up to its first await, or returns
SyncCall ==
    /\ pc = "saved"
    /\ startCart' = lsGuest
    /\ IF ZeroEffect(sessAuth, localAuth, listGuestItems(lsGuest))
       THEN /\ result' = NoResult
            /\ pc' = "returned"
            /\ entries' = <<>>
            /\ UNCHANGED <<lsGuest, idx, synced, reqLog, runs>>
       ELSE /\ entries' = listGuestItems(lsGuest)
            /\ synced' = 0
            /\ runs' = IF audit THEN runs + 1 ELSE runs
            /\ Continue(listGuestItems(lsGuest), 0, 0, <<>>)
    /\ lastReq' = IF pc' = "awaiting" THEN Sent(sessAuth, localAuth) ELSE lastReq
    /\ UNCHANGED <<authVars, last, delivered, audit, pageStore, page>>

\* the add request in flight is answered
SyncResponse(status) ==
    /\ pc = "awaiting"
    /\ delivered' =
         IF audit /\ IsOk(status)
         THEN [delivered EXCEPT ![reqLog[Len(reqLog)].product_id] =
                                    @ + reqLog[Len(reqLog)].quantity]
         ELSE delivered
    /\ IF status = 401
       THEN /\ result' = UnauthorizedResult(synced, entries)
            /\ lsGuest' = AfterUnauthorized(lsGuest)
            /\ pc' = "returned"
            /\ reqLog' = SetStatus(reqLog, status)
            /\ UNCHANGED <<idx, synced>>
       ELSE /\ synced' = Counted(synced, status)
            /\ Continue(entries, idx, synced', SetStatus(reqLog, status))
    /\ lastReq' = IF pc' = "awaiting" THEN Sent(sessAuth, localAuth) ELSE lastReq
    /\ UNCHANGED <<authVars, last, entries, startCart, runs, audit, pageStore, page>>

\* fetch rejects: apiRequest throws and so does syncGuestCartToServer
SyncNetworkError ==
    /\ pc = "awaiting"
    /\ pc' = "threw"
    /\ reqLog' = SetStatus(reqLog, NetErr)
    /\ UNCHANGED <<lsGuest, authVars, last, entries, idx, synced, result,
                   startCart, delivered, runs, audit, pageStore, page, lastReq>>

\* a handler whose outer catch takes what the sync throws
GoesOnIfReturned(p) == p = "returned"

\* the try / catch around the sync: the handler goes on to the redirect
\* when the sync has returned and when it has thrown
GoesOn(p) == p \in {"returned", "threw"}

\* the handler redirects to the return-to page whether the sync returned
\* or threw; the login page is left (the bookkeeping of delivered
\* quantities ends with the run that cleared the cart)
Redirect ==
    /\ GoesOn(pc)
    /\ pc' = "idle"
    /\ entries' = <<>>
    /\ idx' = 0
    /\ synced' = 0
    /\ result' = NoResult
    /\ reqLog' = <<>>
    /\ startCart' = AbsentCart
    /\ IF pc = "returned" /\ Len(entries) > 0 /\ ~result.unauthorized
       THEN delivered' = [key \in AllKeys |-> 0] /\ runs' = 0
       ELSE UNCHANGED <<delivered, runs>>
    /\ page' = AfterLoginRedirect(page)
    /\ UNCHANGED <<lsGuest, authVars, last, audit, pageStore, lastReq>>

\* a page answers a 401, or the user logs out: clearAuth
ClearAuth ==
    /\ pc = "idle"
    /\ isLoggedIn(sessAuth, localAuth)
    /\ sessAuth' = clearAuth[1]
    /\ localAuth' = clearAuth[2]
    /\ UNCHANGED <<lsGuest, last, syncVars, pageStore, page, lastReq>>

\* the account page saved the profile: the handler reads the session with
\* getAuth and saves it again with saveAuth(nextAuth), without a remember
\* argument
ProfileSave ==
    /\ pc = "idle"
    /\ isLoggedIn(sessAuth, localAuth)
    /\ sessAuth' = saveAuth(sessAuth, localAuth, getAuth(sessAuth, localAuth), FALSE)[1]
    /\ localAuth' = saveAuth(sessAuth, localAuth, getAuth(sessAuth, localAuth), FALSE)[2]
    /\ UNCHANGED <<lsGuest, last, syncVars, pageStore, page, lastReq>>

(***************************************************************************)
(* Specifications                                                          *)
(***************************************************************************)
Init ==
    /\ lsGuest = AbsentCart
    /\ sessAuth = NoAuth
    /\ localAuth = NoAuth
    /\ last = [op |-> "none", id |-> 0, arg |-> Num(0), before |-> AbsentCart,
               seen |-> <<>>, fault |-> "none", threw |-> FALSE]
    /\ pc = "idle"
    /\ entries = <<>>
    /\ idx = 0
    /\ synced = 0
    /\ result = NoResult
    /\ reqLog = <<>>
    /\ startCart = AbsentCart
    /\ delivered = [key \in AllKeys |-> 0]
    /\ runs = 0
    /\ audit = FALSE
    /\ pageStore = NoPageStore
    /\ lastReq = NoReq
    /\ page = NoPage

\* the guest cart cache alone, called with every kind of argument
NextCache ==
    \/ \E rawProduct \in Catalog, qtyToAdd \in QtyArgs :
          AddGuestItem(rawProduct, qtyToAdd)
    \/ \E productId \in IdArgs, nextQty \in QtyArgs :
          SetGuestItemQty(productId, nextQty)
    \/ \E productId \in IdArgs : RemoveGuestItem(productId)
    \/ ClearGuestCart

SpecCache == Init /\ [][NextCache]_vars

\* products and quantities handed to the cache while localStorage may fail
FaultyCatalog == {[id |-> Num(1), price |-> Num(1)],
                  [id |-> Num(2), price |-> Num(2)],
                  [id |-> Num(0), price |-> Num(1)]}
FaultyIdArgs == {1, 2, 0}
FaultyQtyArgs == {Num(0), Num(1), Num(2)}

\* the guest cart cache called on a localStorage that works, refuses writes
\* or refuses every access, call by call
NextFaulty ==
    \/ \E fault \in Faults, rawProduct \in FaultyCatalog, qtyToAdd \in FaultyQtyArgs :
          AddGuestItemOn(fault, rawProduct, qtyToAdd)
    \/ \E fault \in Faults, productId \in FaultyIdArgs, nextQty \in FaultyQtyArgs :
          SetGuestItemQtyOn(fault, productId, nextQty)
    \/ \E fault \in Faults, productId \in FaultyIdArgs :
          RemoveGuestItemOn(fault, productId)
    \/ \E fault \in Faults : ClearGuestCartOn(fault)

SpecFaulty == Init /\ [][NextFaulty]_vars

\* a page reads one of the stored values; last records the read, the kind
\* of text it found, whether it threw and whether it gave the empty / null
\* default
Read(op, kind, outcome) ==
    /\ pc = "idle"
    /\ last' = [op |-> op, raw |-> kind, threw |-> outcome.threw,
                isNull |-> outcome.isNull]
    /\ UNCHANGED <<lsGuest, authVars, syncVars, pageStore, page, lastReq>>

ReadGuestCart ==
    Read("getGuestCart", lsGuest.kind,
         [threw |-> safeJsonParse(lsGuest.kind).threw,
          isNull |-> DOMAIN getGuestCart(lsGuest) = {}])

ReadAuth ==
    Read("getAuth", AuthKind(AuthRaw(sessAuth, localAuth)),
         readAuth(sessAuth, localAuth))

ReadLocalAddress ==
    Read("getLocalAddress", pageStore.address, getLocalAddress(pageStore.address))

ReadPendingOrder ==
    Read("pendingOrder", pageStore.pending, readPendingOrder(pageStore.pending))

\* the guest cart values a browser may hold when a page loads: nothing, a
\* text that is no JSON, a cart without entries, a cart with one entry
StoredCarts ==
    {AbsentCart,
     [kind |-> "malformed", items |-> NoItems],
     setGuestCart(NoItems),
     setGuestCart(Put(NoItems, 1,
        [qty |-> Num(2), product |-> [id |-> Num(1), price |-> Num(1)]]))}

\* the pages' reads on every combination of missing, malformed and valid
\* stored values
InitRead ==
    /\ lsGuest \in StoredCarts
    /\ sessAuth \in {NoAuth, Malformed, "tok"}
    /\ localAuth \in {NoAuth, Malformed, "tok"}
    /\ pageStore \in [address : RawKinds, pending : RawKinds]
    /\ lastReq = NoReq
    /\ page = NoPage
    /\ last = [op |-> "none", raw |-> "absent", threw |-> FALSE, isNull |-> TRUE]
    /\ pc = "idle"
    /\ entries = <<>>
    /\ idx = 0
    /\ synced = 0
    /\ result = NoResult
    /\ reqLog = <<>>
    /\ startCart = AbsentCart
    /\ delivered = [key \in AllKeys |-> 0]
    /\ runs = 0
    /\ audit = FALSE

NextRead ==
    \/ ReadGuestCart
    \/ ReadAuth
    \/ ReadLocalAddress
    \/ ReadPendingOrder

SpecRead == InitRead /\ [][NextRead]_vars

\* a visitor fills the guest cart from the catalog (and with a product of
\* negative id), logs in, and may be logged out and log in again
Next ==
    \/ \E key \in AllKeys, n \in 1..2 : HandleAddToCart(key, n)
    \/ \E key \in AllKeys : GuestRemoveClick(key)
    \/ LoginSubmit
    \/ LoginFailed
    \/ \E access \in {NoAuth, "tok"}, remember \in BOOLEAN : LoginOk(access, remember)
    \/ SyncCall
    \/ \E status \in Statuses : SyncResponse(status)
    \/ SyncNetworkError
    \/ Redirect
    \/ ClearAuth
    \/ ProfileSave

Spec == Init /\ [][Next]_vars

\* the same, where a pending fetch is settled in the end and a handler
\* that can run does run: weak fairness of the redirect, of the sync call
\* and of the answer to a request in flight, the last two written with
\* the state predicate that enables them
SpecLive ==
    /\ Init /\ [][Next]_vars
    /\ []<>(pc # "saved") \/ []<><<SyncCall>>_vars
    /\ []<>(pc # "awaiting")
          \/ []<><<SyncNetworkError \/ \E status \in Statuses : SyncResponse(status)>>_vars
    /\ WF_vars(Redirect)

\* the same, with the quantities delivered to the server kept over the
\* sync runs that follow each other on one guest cart
InitAudit ==
    /\ lsGuest = AbsentCart
    /\ sessAuth = NoAuth
    /\ localAuth = NoAuth
    /\ last = [op |-> "none", id |-> 0, arg |-> Num(0), before |-> AbsentCart,
               seen |-> <<>>, fault |-> "none", threw |-> FALSE]
    /\ pc = "idle"
    /\ entries = <<>>
    /\ idx = 0
    /\ synced = 0
    /\ result = NoResult
    /\ reqLog = <<>>
    /\ startCart = AbsentCart
    /\ delivered = [key \in AllKeys |-> 0]
    /\ runs = 0
    /\ audit = TRUE
    /\ pageStore = NoPageStore
    /\ lastReq = NoReq
    /\ page = NoPage

SpecAudit == InitAudit /\ [][Next]_vars

(***************************************************************************)
(* Checkout page: create order, pay, confirm, return from a redirect       *)
(***************************************************************************)
MaxOrders == 2      \* orders the server creates in one run of the model

\* no pending-order marker in sessionStorage
NoMarker == [orderId |-> 0, paymentIntentId |-> 0]

\* the answers to POST /orders/checkout/ for the order the server would
\* create with id o: 401, a failure, a 2xx body with every field, and 2xx
\* bodies that lack the order id, the client secret or the payment intent id
CheckoutResponses(o) ==
    {[status |-> 401, orderId |-> 0, clientSecret |-> FALSE, paymentIntentId |-> 0],
     [status |-> 500, orderId |-> 0, clientSecret |-> FALSE, paymentIntentId |-> 0],
     [status |-> 200, orderId |-> o, clientSecret |-> TRUE, paymentIntentId |-> o],
     [status |-> 200, orderId |-> 0, clientSecret |-> TRUE, paymentIntentId |-> o],
     [status |-> 200, orderId |-> o, clientSecret |-> FALSE, paymentIntentId |-> o],
     [status |-> 200, orderId |-> o, clientSecret |-> TRUE, paymentIntentId |-> 0]}

\* a test of the checkout response that only looks for the order id
CreatedWithId(res) == IsOk(res.status) /\ res.orderId # 0

\* createOrder goes on to save the order: the response is 2xx and has an
\* order id, a client secret and a payment intent id
Created(res) ==
    /\ IsOk(res.status)
    /\ res.orderId # 0
    /\ res.clientSecret
    /\ res.paymentIntentId # 0

\* a pay handler that finalizes whatever status the payment has
PaymentReported(status) == status \in {"succeeded", "processing"}

\* handlePayClick finalizes only a payment whose status is succeeded
PaymentSucceeded(status) == status = "succeeded"

\* the kind of text the pending-order key holds
MarkerKind(marker) == IF marker = NoMarker THEN "absent" ELSE "json"

\* pending?.orderId in handleStripeReturnIfAny: 0 when the read gave null
PendingOrderId(marker) ==
    IF readPendingOrder(MarkerKind(marker)).isNull THEN 0 ELSE marker.orderId

\* the checkout page as its script starts: nothing in memory, the marker
\* as sessionStorage holds it
CheckoutLoaded(old, urlPI) ==
    [name |-> "checkout",
     activeOrderId |-> 0, activePaymentIntentId |-> 0,
     elementsPI |-> 0, payEnabled |-> FALSE,
     createPc |-> "idle", payPc |-> "idle",
     marker |-> old.marker, urlPI |-> urlPI,
     answered |-> old.answered, paid |-> old.paid, confirms |-> old.confirms,
     nextOrder |-> old.nextOrder,
     event |-> [kind |-> "boot", status |-> 0]]

\* the page is left for another one: requests in flight are abandoned
CheckoutLeft(old, event) ==
    [old EXCEPT !.activeOrderId = 0, !.activePaymentIntentId = 0,
                !.elementsPI = 0, !.payEnabled = FALSE,
                !.createPc = "idle", !.payPc = "left", !.event = event]

\* a confirm request POST /orders/{orderId}/confirm/
ConfirmRequest(orderId, pi, via) ==
    [orderId |-> orderId, paymentIntentId |-> pi, via |-> via]

\* the page boots logged in, with or without a payment_intent parameter in
\* its URL: handleStripeReturnIfAny sends the confirm request when the
\* parameter is there and the marker read has an order id
CheckoutBoot(urlPI) ==
    /\ page.name = "checkout"
    /\ isLoggedIn(sessAuth, localAuth)
    /\ LET fresh == CheckoutLoaded(page, urlPI)
       IN page' =
            IF urlPI # 0 /\ PendingOrderId(page.marker) # 0
            THEN [fresh EXCEPT
                    !.payPc = "returnConfirming",
                    !.confirms = @ \cup
                        {ConfirmRequest(PendingOrderId(page.marker), urlPI, "return")}]
            ELSE fresh
    /\ lastReq' = Sent(sessAuth, localAuth)
    /\ UNCHANGED <<lsGuest, authVars, last, syncVars, pageStore>>

\* confirmOrderOnServer after its request is answered (status NetErr: fetch
\* rejected): the marker is removed on 2xx, the session cleared on 401
ConfirmAnswered(status) ==
    /\ page.name = "checkout"
    /\ page.payPc \in {"confirming", "returnConfirming"}
    /\ LET event == [kind |-> "confirmAnswered", status |-> status]
       IN IF status = 401
          THEN /\ sessAuth' = clearAuth[1]
               /\ localAuth' = clearAuth[2]
               /\ page' = CheckoutLeft(page, event)
          ELSE /\ UNCHANGED authVars
               /\ page' =
                    [page EXCEPT
                       !.marker = IF IsOk(status) THEN NoMarker ELSE @,
                       !.event = event,
                       !.payPc = IF page.payPc = "returnConfirming" THEN "idle"
                                 ELSE IF IsOk(status) THEN "done" ELSE "idle",
                       !.payEnabled =
                           IF page.payPc = "confirming" THEN ~IsOk(status) ELSE @]
    /\ UNCHANGED <<lsGuest, last, syncVars, pageStore, lastReq>>

\* the checkout form is submitted: createOrder posts the order
SubmitCheckout ==
    /\ page.name = "checkout"
    /\ page.payPc \notin {"returnConfirming", "left"}
    /\ page.createPc = "idle"
    /\ page.nextOrder <= MaxOrders
    /\ page' = [page EXCEPT !.createPc = "inflight",
                            !.event = [kind |-> "submit", status |-> 0]]
    /\ lastReq' = Sent(sessAuth, localAuth)
    /\ UNCHANGED <<lsGuest, authVars, last, syncVars, pageStore>>

\* createOrder after its request is answered, and mountStripe
CheckoutAnswered(res) ==
    /\ page.name = "checkout"
    /\ page.createPc = "inflight"
    /\ LET event == [kind |-> "createAnswered", status |-> res.status]
       IN IF res.status = 401
          THEN /\ sessAuth' = clearAuth[1]
               /\ localAuth' = clearAuth[2]
               /\ page' = CheckoutLeft(page, event)
          ELSE /\ UNCHANGED authVars
               /\ page' =
                    IF Created(res)
                    THEN [page EXCEPT
                            !.activeOrderId = res.orderId,
                            !.activePaymentIntentId = res.paymentIntentId,
                            !.marker = [orderId |-> res.orderId,
                                        paymentIntentId |-> res.paymentIntentId],
                            !.elementsPI = res.paymentIntentId,
                            !.payEnabled = TRUE,
                            !.answered = @ \cup {res},
                            !.nextOrder = @ + 1,
                            !.createPc = "idle",
                            !.event = event]
                    ELSE [page EXCEPT
                            !.answered = IF IsOk(res.status) THEN @ \cup {res} ELSE @,
                            !.nextOrder = IF IsOk(res.status) THEN @ + 1 ELSE @,
                            !.createPc = "idle",
                            !.event = event]
    /\ UNCHANGED <<lsGuest, last, syncVars, pageStore, lastReq>>

\* handlePayClick up to stripe.confirmPayment
PayClick ==
    /\ page.name = "checkout"
    /\ page.payPc = "idle"
    /\ page.payEnabled
    /\ page.elementsPI # 0
    /\ page.activeOrderId # 0 /\ page.activePaymentIntentId # 0
    /\ page' = [page EXCEPT !.payEnabled = FALSE, !.payPc = "stripe",
                            !.event = [kind |-> "payClick", status |-> 0]]
    /\ UNCHANGED <<lsGuest, authVars, last, syncVars, pageStore, lastReq>>

\* stripe.confirmPayment settles: an error, a status, or a redirect that
\* takes the browser away; on succeeded the confirm request is sent for
\* the order in activeOrderId
StripeSettled(outcome) ==
    /\ page.name = "checkout"
    /\ page.payPc = "stripe"
    /\ LET event == [kind |-> "stripe", status |-> 0]
       IN page' =
            CASE outcome = "redirect" -> CheckoutLeft(page, event)
              [] PaymentSucceeded(outcome) ->
                    [page EXCEPT
                       !.payPc = "confirming",
                       !.paid = IF outcome = "succeeded"
                                THEN @ \cup {page.elementsPI} ELSE @,
                       !.confirms = @ \cup
                           {ConfirmRequest(page.activeOrderId, page.elementsPI, "pay")},
                       !.event = event]
              [] OTHER ->
                    [page EXCEPT !.payPc = "idle", !.payEnabled = TRUE,
                                 !.event = event]
    /\ lastReq' = IF page'.payPc = "confirming" THEN Sent(sessAuth, localAuth)
                  ELSE lastReq
    /\ UNCHANGED <<lsGuest, authVars, last, syncVars, pageStore>>

\* the checkout page of a logged-in customer, before its script has run
InitCheckout ==
    /\ lsGuest = AbsentCart
    /\ sessAuth = "tok"
    /\ localAuth = NoAuth
    /\ last = [op |-> "none", id |-> 0, arg |-> Num(0), before |-> AbsentCart,
               seen |-> <<>>, fault |-> "none", threw |-> FALSE]
    /\ pc = "idle"
    /\ entries = <<>>
    /\ idx = 0
    /\ synced = 0
    /\ result = NoResult
    /\ reqLog = <<>>
    /\ startCart = AbsentCart
    /\ delivered = [key \in AllKeys |-> 0]
    /\ runs = 0
    /\ audit = FALSE
    /\ pageStore = NoPageStore
    /\ lastReq = NoReq
    /\ page = [name |-> "checkout",
               activeOrderId |-> 0, activePaymentIntentId |-> 0,
               elementsPI |-> 0, payEnabled |-> FALSE,
               createPc |-> "idle", payPc |-> "left",
               marker |-> NoMarker, urlPI |-> 0,
               answered |-> {}, paid |-> {}, confirms |-> {},
               nextOrder |-> 1,
               event |-> [kind |-> "none", status |-> 0]]

NextCheckout ==
    \/ \E urlPI \in 0..MaxOrders : CheckoutBoot(urlPI)
    \/ \E status \in {200, 401, 500, NetErr} : ConfirmAnswered(status)
    \/ SubmitCheckout
    \/ \E res \in CheckoutResponses(page.nextOrder) : CheckoutAnswered(res)
    \/ PayClick
    \/ \E outcome \in {"error", "succeeded", "processing", "redirect"} :
          StripeSettled(outcome)

SpecCheckout == InitCheckout /\ [][NextCheckout]_vars

(***************************************************************************)
(* Cart page, authenticated cart: quantity and remove handlers, clear      *)
(* cart, and the server that answers them                                  *)
(***************************************************************************)
MaxItems == 2       \* line items of the server cart
MaxOps == 2         \* quantity / remove handlers started on one page load
MaxClearOps == 1    \* the same, on a page load whose cart is being cleared

CartItems == 1..MaxItems

\* the owners of requests: 0 is clearAuthCart, 1..MaxOps the handlers
Clearing == 0
Owners == 0..MaxOps

\* an owner without a request in flight
NoCall == [kind |-> "none", item |-> 0, qty |-> 0, state |-> "none",
           status |-> 0, body |-> <<>>]

\* a request as apiRequest sends it
ApiCall(kind, item, qty) ==
    [kind |-> kind, item |-> item, qty |-> qty, state |-> "sent",
     status |-> 0, body |-> <<>>]

\* the line item ids of a cart (a map from item id to quantity, 0 for no
\* line), in the order of cart.items
ItemsOf(cart) == Ascending({id \in DOMAIN cart : cart[id] > 0})

\* a clear button that stays disabled after a failure
EnabledUnlessThrew(threw) == ~threw

\* the finally of clearAuthCart: the button is enabled again
EnabledAfterClear(threw) == TRUE

\* the server's cart after it has handled a request with a 2xx answer
ServerAfter(server, r) ==
    CASE r.kind = "PATCH" -> [server EXCEPT ![r.item] = r.qty]
      [] r.kind = "DELETE" -> [server EXCEPT ![r.item] = 0]
      [] OTHER -> server

\* the statuses the server may answer a request with: a mutation of a line
\* that is not there cannot succeed
AnswersTo(server, r) ==
    IF r.kind \in {"PATCH", "DELETE"} /\ server[r.item] = 0
    THEN {401, 500}
    ELSE {200, 401, 500}

\* the cart page of a logged-in customer after its first refresh
CartLoaded(server, limit) ==
    [name |-> "cart",
     limit |-> limit,
     server |-> server,
     cart |-> server,
     net |-> [o \in Owners |-> NoCall],
     clear |-> [pc |-> "idle", items |-> <<>>, i |-> 0, enabled |-> TRUE],
     clog |-> <<>>,
     ops |-> 0,
     allOk |-> TRUE,
     reloading |-> FALSE,
     loaded |-> TRUE,
     event |-> "loaded"]

\* the change handler of a quantity input: updateItemQty sends the PATCH
CartUpdateQty(id, newQty) ==
    /\ page.name = "cart" /\ page.loaded
    /\ page.ops < page.limit
    /\ page.cart[id] > 0
    /\ page' = [page EXCEPT
                  !.ops = @ + 1,
                  !.net[page.ops + 1] =
                      ApiCall("PATCH", id, IntOf(MathMax(1, OrElse(ToNumber(newQty), Num(1))))),
                  !.event = "update"]
    /\ lastReq' = Sent(sessAuth, localAuth)
    /\ UNCHANGED <<lsGuest, authVars, last, syncVars, pageStore>>

\* the click handler of a remove button: removeItem sends the DELETE
CartRemoveClick(id) ==
    /\ page.name = "cart" /\ page.loaded
    /\ page.ops < page.limit
    /\ page.cart[id] > 0
    /\ page' = [page EXCEPT
                  !.ops = @ + 1,
                  !.net[page.ops + 1] = ApiCall("DELETE", id, 0),
                  !.event = "remove"]
    /\ lastReq' = Sent(sessAuth, localAuth)
    /\ UNCHANGED <<lsGuest, authVars, last, syncVars, pageStore>>

\* the click handler of the clear button, logged in: clearAuthCart returns
\* on an empty cart, else disables the button and sends the first DELETE
ClearClick ==
    /\ page.name = "cart" /\ page.loaded
    /\ page.clear.enabled
    /\ isLoggedIn(sessAuth, localAuth)
    /\ LET items == ItemsOf(page.cart)
       IN IF Len(items) = 0
          THEN /\ page' = [page EXCEPT !.event = "alreadyEmpty", !.clog = <<>>]
               /\ UNCHANGED lastReq
          ELSE /\ page' = [page EXCEPT
                             !.clear = [pc |-> "deleting", items |-> items,
                                        i |-> 1, enabled |-> FALSE],
                             !.net[Clearing] = ApiCall("DELETE", items[1], 0),
                             !.clog = <<[kind |-> "DELETE", item |-> items[1],
                                         status |-> Pending]>>,
                             !.allOk = FALSE,
                             !.event = "clear"]
               /\ lastReq' = Sent(sessAuth, localAuth)
    /\ UNCHANGED <<lsGuest, authVars, last, syncVars, pageStore>>

\* the server handles a request and answers it; the answer is on its way
ServerHandles(o, status) ==
    /\ page.name = "cart"
    /\ page.net[o].state = "sent"
    /\ status \in AnswersTo(page.server, page.net[o])
    /\ LET after == IF IsOk(status) THEN ServerAfter(page.server, page.net[o])
                    ELSE page.server
       IN page' = [page EXCEPT
                     !.server = after,
                     !.net[o] = [page.net[o] EXCEPT
                                   !.state = "answered",
                                   !.status = status,
                                   !.body = IF page.net[o].kind = "GET" /\ IsOk(status)
                                            THEN after ELSE <<>>],
                     !.event = "served"]
    /\ UNCHANGED <<lsGuest, authVars, last, syncVars, pageStore, lastReq>>

\* a handler's request is answered: updateItemQty / removeItem go on to
\* refresh after a 2xx, refresh takes the cart of a 2xx; 401 is
\* handleUnauthorized, another status is thrown to the handler's catch
HandlerReceives(o) ==
    /\ page.name = "cart" /\ page.loaded
    /\ o # Clearing
    /\ page.net[o].state = "answered"
    /\ LET r == page.net[o]
       IN /\ page' =
               CASE r.status = 401 ->
                       [page EXCEPT !.net[o] = NoCall, !.reloading = TRUE,
                                    !.allOk = FALSE, !.event = "unauthorized"]
                 [] ~IsOk(r.status) ->
                       [page EXCEPT !.net[o] = NoCall, !.allOk = FALSE,
                                    !.event = "failed"]
                 [] r.kind = "GET" ->
                       [page EXCEPT !.net[o] = NoCall, !.cart = r.body,
                                    !.event = "rendered"]
                 [] OTHER ->
                       [page EXCEPT !.net[o] = ApiCall("GET", 0, 0),
                                    !.event = "refresh"]
          /\ sessAuth' = IF r.status = 401 THEN clearAuth[1] ELSE sessAuth
          /\ localAuth' = IF r.status = 401 THEN clearAuth[2] ELSE localAuth
          /\ lastReq' = IF page'.net[o].kind = "GET"
                        THEN Sent(sessAuth, localAuth) ELSE lastReq
    /\ UNCHANGED <<lsGuest, last, syncVars, pageStore>>

\* what clearAuthCart does after the DELETE of entry i was answered 2xx or
\* 401 (removeItemNoRefresh returned): the DELETE of the next entry, or
\* the refresh after the last one
ClearGoesOn(p) ==
    IF p.clear.i < Len(p.clear.items)
    THEN [p EXCEPT
            !.clear.i = @ + 1,
            !.net[Clearing] = ApiCall("DELETE", p.clear.items[p.clear.i + 1], 0),
            !.clog = Append(@, [kind |-> "DELETE",
                                item |-> p.clear.items[p.clear.i + 1],
                                status |-> Pending])]
    ELSE [p EXCEPT
            !.clear.pc = "refreshing",
            !.net[Clearing] = ApiCall("GET", 0, 0),
            !.clog = Append(@, [kind |-> "GET", item |-> 0, status |-> Pending])]

\* clearAuthCart has ended, by return or by throw
ClearEnded(p, threw) ==
    [p EXCEPT !.clear.pc = "idle",
              !.clear.enabled = EnabledAfterClear(threw),
              !.net[Clearing] = NoCall]

\* the page is torn down by the reload handleUnauthorized asked for:
\* requests in flight are abandoned, no script runs any more
Unloaded(p) ==
    [p EXCEPT !.loaded = FALSE, !.reloading = FALSE,
              !.net = [o \in Owners |-> NoCall],
              !.clear.pc = "idle",
              !.clear.enabled = FALSE,
              !.event = "unloaded"]

\* a request of clearAuthCart is answered. 401: handleUnauthorized clears
\* the session and asks for a reload, and removeItemNoRefresh returns, so
\* the loop goes on unless the page is torn down first (unloadsFirst)
ClearReceives(unloadsFirst) ==
    /\ page.name = "cart" /\ page.loaded
    /\ page.net[Clearing].state = "answered"
    /\ unloadsFirst => page.net[Clearing].status = 401
    /\ LET r == page.net[Clearing]
           logged == [page EXCEPT !.clog[Len(page.clog)].status = r.status,
                                  !.event = "clearAnswered"]
       IN /\ page' =
               CASE r.status = 401 /\ unloadsFirst -> Unloaded(logged)
                 [] r.status = 401 /\ r.kind = "DELETE" ->
                       ClearGoesOn([logged EXCEPT !.reloading = TRUE])
                 [] r.status = 401 ->
                       ClearEnded([logged EXCEPT !.reloading = TRUE], FALSE)
                 [] ~IsOk(r.status) -> ClearEnded(logged, TRUE)
                 [] r.kind = "DELETE" -> ClearGoesOn(logged)
                 [] OTHER -> ClearEnded([logged EXCEPT !.cart = r.body], FALSE)
          /\ sessAuth' = IF r.status = 401 THEN clearAuth[1] ELSE sessAuth
          /\ localAuth' = IF r.status = 401 THEN clearAuth[2] ELSE localAuth
          /\ lastReq' = IF page'.net[Clearing].state = "sent"
                        THEN Sent(sessAuth', localAuth') ELSE lastReq
    /\ UNCHANGED <<lsGuest, last, syncVars, pageStore>>

\* the reload takes place
Unload ==
    /\ page.name = "cart" /\ page.loaded
    /\ page.reloading
    /\ page' = Unloaded(page)
    /\ UNCHANGED <<lsGuest, authVars, last, syncVars, pageStore, lastReq>>

\* a logged-in customer with no guest cart, before the cart page loads
LoggedInIdle ==
    /\ lsGuest = AbsentCart
    /\ sessAuth = "tok"
    /\ localAuth = NoAuth
    /\ last = [op |-> "none", id |-> 0, arg |-> Num(0), before |-> AbsentCart,
               seen |-> <<>>, fault |-> "none", threw |-> FALSE]
    /\ pc = "idle"
    /\ entries = <<>>
    /\ idx = 0
    /\ synced = 0
    /\ result = NoResult
    /\ reqLog = <<>>
    /\ startCart = AbsentCart
    /\ delivered = [key \in AllKeys |-> 0]
    /\ runs = 0
    /\ audit = FALSE
    /\ pageStore = NoPageStore
    /\ lastReq = NoReq

\* the cart page of a logged-in customer, loaded with a server cart of at
\* most one unit per line; the customer changes quantities and removes lines
InitAuthCart ==
    /\ LoggedInIdle
    /\ \E server \in [CartItems -> 0..1] : page = CartLoaded(server, MaxOps)

NextAuthCart ==
    \/ \E id \in CartItems, newQty \in {Num(0), Num(2)} : CartUpdateQty(id, newQty)
    \/ \E id \in CartItems : CartRemoveClick(id)
    \/ \E o \in Owners, status \in {200, 401, 500} : ServerHandles(o, status)
    \/ \E o \in Owners : HandlerReceives(o)
    \/ Unload

SpecAuthCart == InitAuthCart /\ [][NextAuthCart]_vars

\* the same page; the customer clears the cart, and may change a quantity
\* or remove a line while the clear runs
InitClearCart ==
    /\ LoggedInIdle
    /\ \E server \in [CartItems -> 0..1] : page = CartLoaded(server, MaxClearOps)

NextClearCart ==
    \/ ClearClick
    \/ \E unloadsFirst \in BOOLEAN : ClearReceives(unloadsFirst)
    \/ NextAuthCart

SpecClearCart == InitClearCart /\ [][NextClearCart]_vars

(***************************************************************************)
(* A second tab of the same browser: it shares localStorage (guest cart,   *)
(* remembered session) and has a sessionStorage of its own                 *)
(***************************************************************************)
\* handleAddToCart in another tab, which never logged in itself, while a
\* request of this tab's sync is in flight
OtherTabAddToCart(key, n) ==
    /\ pc = "awaiting"
    /\ IF ~isLoggedIn(NoAuth, localAuth)
       THEN /\ LET written == addGuestItem(lsGuest,
                              [id |-> Num(key), price |-> Num(1)], AddQty(Num(n)))
               IN WithinBound(written) /\ lsGuest' = written
            /\ Bookkeeping
            /\ UNCHANGED lastReq
       ELSE /\ lastReq' = Sent(NoAuth, localAuth)
            /\ UNCHANGED <<lsGuest, delivered, runs>>
    /\ UNCHANGED <<authVars, last, pc, entries, idx, synced, result, reqLog,
                   startCart, audit, pageStore, page>>

NextTabs ==
    \/ Next
    \/ \E key \in AllKeys, n \in 1..2 : OtherTabAddToCart(key, n)

SpecTabs == Init /\ [][NextTabs]_vars

(***************************************************************************)
(* A tab that moves between the pages of the site, logs in and logs out    *)
(***************************************************************************)
InitGuard ==
    /\ lsGuest = AbsentCart
    /\ sessAuth = NoAuth
    /\ localAuth = NoAuth
    /\ last = [op |-> "none", id |-> 0, arg |-> Num(0), before |-> AbsentCart,
               seen |-> <<>>, fault |-> "none", threw |-> FALSE]
    /\ pc = "idle"
    /\ entries = <<>>
    /\ idx = 0
    /\ synced = 0
    /\ result = NoResult
    /\ reqLog = <<>>
    /\ startCart = AbsentCart
    /\ delivered = [key \in AllKeys |-> 0]
    /\ runs = 0
    /\ audit = FALSE
    /\ pageStore = NoPageStore
    /\ lastReq = NoReq
    /\ page = GuardTab("index.html", "")

NextGuard ==
    \/ \E file \in Files, query \in {"", "?payment_intent=pi_1"} : Navigate(file, query)
    \/ \E provider \in BOOLEAN : PageLoad(provider)
    \/ Logout
    \/ HandleAddToCart(1, 1)
    \/ LoginSubmit
    \/ LoginFailed
    \/ \E access \in {NoAuth, "tok"}, remember \in BOOLEAN : LoginOk(access, remember)
    \/ SyncCall
    \/ \E status \in Statuses : SyncResponse(status)
    \/ SyncNetworkError
    \/ Redirect
    \/ ClearAuth

SpecGuard == InitGuard /\ [][NextGuard]_vars

(***************************************************************************)
(* Store page: the favorite star of a farm                                 *)
(***************************************************************************)
MaxClicks == 2      \* clicks on the star on one page load

\* a click that has sent nothing (yet)
NoToggle == [kind |-> "none", was |-> FALSE, starBefore |-> FALSE,
             cacheBefore |-> FALSE, state |-> "none", status |-> 0]

\* the store page of a logged-in customer after loadFavorites and render:
\* the star shows what the cached set holds, which is what the server has
StoreLoaded(favorite) ==
    [name |-> "store",
     server |-> favorite,
     cache |-> favorite,
     star |-> favorite,
     toggles |-> [i \in 1..MaxClicks |-> NoToggle],
     clicks |-> 0,
     acted |-> 0,
     left |-> FALSE,
     event |-> "loaded"]

\* the click handler up to its await: the star is set to the opposite of
\* what the cached set holds, and the add or remove request is sent
FavoriteClick ==
    /\ page.name = "store" /\ ~page.left
    /\ isLoggedIn(sessAuth, localAuth)
    /\ page.clicks < MaxClicks
    /\ LET isCurrentlyFavorited == page.cache
           i == page.clicks + 1
       IN page' = [page EXCEPT
                     !.star = ~isCurrentlyFavorited,
                     !.clicks = i,
                     !.acted = i,
                     !.toggles[i] =
                         [kind |-> IF isCurrentlyFavorited THEN "remove" ELSE "add",
                          was |-> isCurrentlyFavorited,
                          starBefore |-> page.star,
                          cacheBefore |-> page.cache,
                          state |-> "sent", status |-> 0],
                     !.event = "click"]
    /\ lastReq' = Sent(sessAuth, localAuth)
    /\ UNCHANGED <<lsGuest, authVars, last, syncVars, pageStore>>

\* the server handles the request of click i and answers it
FavoriteServed(i, status) ==
    /\ page.name = "store"
    /\ page.toggles[i].state = "sent"
    /\ page' = [page EXCEPT
                  !.server = IF IsOk(status) THEN page.toggles[i].kind = "add" ELSE @,
                  !.toggles[i].state = "answered",
                  !.toggles[i].status = status,
                  !.event = "served"]
    /\ UNCHANGED <<lsGuest, authVars, last, syncVars, pageStore, lastReq>>

\* what the handler of click i does when its request has settled: 401
\* clears the session and leaves for the login page; another failure is
\* thrown to the catch, which sets the star to what the cached set held at
\* the click; a 2xx commits the cached set
FavoriteSettled(p, i, status) ==
    CASE status = 401 ->
            [p EXCEPT !.toggles[i] = NoToggle, !.acted = i, !.left = TRUE,
                      !.event = "unauthorized"]
      [] ~IsOk(status) ->
            [p EXCEPT !.toggles[i] = NoToggle, !.acted = i,
                      !.star = p.toggles[i].was,
                      !.event = "failed"]
      [] OTHER ->
            [p EXCEPT !.toggles[i] = NoToggle, !.acted = i,
                      !.cache = ~p.toggles[i].was,
                      !.event = "succeeded"]

\* the answer to click i arrives
FavoriteAnswered(i) ==
    /\ page.name = "store" /\ ~page.left
    /\ page.toggles[i].state = "answered"
    /\ page' = [FavoriteSettled(page, i, page.toggles[i].status) EXCEPT
                   !.toggles[i] = [page.toggles[i] EXCEPT !.state = "done"]]
    /\ sessAuth' = IF page.toggles[i].status = 401 THEN clearAuth[1] ELSE sessAuth
    /\ localAuth' = IF page.toggles[i].status = 401 THEN clearAuth[2] ELSE localAuth
    /\ UNCHANGED <<lsGuest, last, syncVars, pageStore, lastReq>>

\* fetch rejects for click i: apiRequest throws into the catch
FavoriteNetworkError(i) ==
    /\ page.name = "store" /\ ~page.left
    /\ page.toggles[i].state \in {"sent", "answered"}
    /\ page' = [FavoriteSettled(page, i, NetErr) EXCEPT
                   !.toggles[i] = [page.toggles[i] EXCEPT !.state = "done",
                                                          !.status = NetErr]]
    /\ UNCHANGED <<lsGuest, authVars, last, syncVars, pageStore, lastReq>>

InitStore ==
    /\ LoggedInIdle
    /\ \E favorite \in BOOLEAN : page = StoreLoaded(favorite)

NextStore ==
    \/ FavoriteClick
    \/ \E i \in 1..MaxClicks, status \in Statuses : FavoriteServed(i, status)
    \/ \E i \in 1..MaxClicks : FavoriteAnswered(i)
    \/ \E i \in 1..MaxClicks : FavoriteNetworkError(i)

SpecStore == InitStore /\ [][NextStore]_vars

(***************************************************************************)
(* Account page: boot and the profile form                                 *)
(***************************************************************************)
MaxSubmits == 2     \* submits of the profile form on one page load

\* what a name field or a stored user may hold
Names == {"", "Ann", " Ann", "Lee"}

\* an argument left out of a call (undefined)
Omitted == "undefined"

\* text.trim()
Trim(text) == IF text = " Ann" THEN "Ann" ELSE text

\* String(raw || "").trim()
NameOf(raw) == IF raw = Omitted THEN "" ELSE Trim(raw)

NoNames == [first |-> "", last |-> ""]

\* the request apiUpdateName(firstNameRaw, lastNameRaw) sends
apiUpdateName(firstNameRaw, lastNameRaw) ==
    [method |-> "PUT", path |-> "/auth/profile/name/",
     body |-> [first |-> NameOf(firstNameRaw), last |-> NameOf(lastNameRaw)]]

\* a GET of the account page
ApiGet(path) == [method |-> "GET", path |-> path, body |-> NoNames]

\* a request as the page's log keeps it: who sent it, what the form held
\* then, and the status the server answered it with
Logged(req, by, form) ==
    [method |-> req.method, path |-> req.path, body |-> req.body,
     by |-> by, entered |-> form, status |-> Pending]

\* the account page in a tab, before its onReady handler has run
AccountTab(name) ==
    [name |-> "account",
     stage |-> "closed",
     server |-> name,
     server0 |-> name,
     form |-> NoNames,
     sent |-> <<>>,
     submits |-> 0,
     event |-> "opened"]

\* loadFavorites and loadProviderInfo, started together
ListRequests(form) ==
    <<Logged(ApiGet("/favorites/"), "boot", form),
      Logged(ApiGet("/farms/"), "boot", form)>>

\* CC.onReady, up to its first await: apiUpdateName() without arguments,
\* the form filled from the stored user, then loadDefaultAddress, which
\* asks for the orders unless an address is saved on the device
AccountBoot(firstName, lastName) ==
    /\ page.name = "account"
    /\ page.stage = "closed"
    /\ isLoggedIn(sessAuth, localAuth)
    /\ LET form == [first |-> Trim(firstName), last |-> Trim(lastName)]
           put == Logged(apiUpdateName(Omitted, Omitted), "boot", NoNames)
       IN IF getLocalAddress(pageStore.address).isNull
          THEN page' = [page EXCEPT
                          !.stage = "orders", !.form = form,
                          !.sent = <<put, Logged(ApiGet("/orders/"), "boot", form)>>,
                          !.event = "boot"]
          ELSE page' = [page EXCEPT
                          !.stage = "lists", !.form = form,
                          !.sent = <<put>> \o ListRequests(form),
                          !.event = "boot"]
    /\ lastReq' = Sent(sessAuth, localAuth)
    /\ UNCHANGED <<lsGuest, authVars, last, syncVars, pageStore>>

\* the orders are answered: 401 clears the session and leaves for the
\* login page, any other answer lets the boot go on to the lists
AccountOrdersAnswered(status) ==
    /\ page.name = "account"
    /\ page.stage = "orders"
    /\ IF status = 401
       THEN /\ page' = [page EXCEPT !.stage = "left", !.sent[2].status = status,
                                    !.event = "unauthorized"]
            /\ sessAuth' = clearAuth[1]
            /\ localAuth' = clearAuth[2]
            /\ UNCHANGED lastReq
       ELSE /\ page' = [page EXCEPT !.stage = "lists", !.sent[2].status = status,
                                    !.sent = @ \o ListRequests(page.form),
                                    !.event = "address"]
            /\ lastReq' = Sent(sessAuth, localAuth)
            /\ UNCHANGED authVars
    /\ UNCHANGED <<lsGuest, last, syncVars, pageStore>>

\* both lists have settled: wireEvents, the page is ready
AccountListsSettled ==
    /\ page.name = "account"
    /\ page.stage = "lists"
    /\ page' = [page EXCEPT !.stage = "ready", !.event = "ready"]
    /\ UNCHANGED <<lsGuest, authVars, last, syncVars, pageStore, lastReq>>

\* the name updates of one sender the server has not handled yet, by
\* their place in the log
Unserved(p, by) ==
    {i \in 1..Len(p.sent) : /\ p.sent[i].method = "PUT"
                            /\ p.sent[i].by = by
                            /\ p.sent[i].status = Pending}

\* the server handles the name update of the boot, or of the submit, and
\* answers it
NameUpdateServed(by, status) ==
    /\ page.name = "account"
    /\ Unserved(page, by) # {}
    /\ LET i == CHOOSE i \in Unserved(page, by) : TRUE
       IN page' = [page EXCEPT
                     !.server = IF IsOk(status) THEN page.sent[i].body ELSE @,
                     !.sent[i].status = status,
                     !.event = "served"]
    /\ UNCHANGED <<lsGuest, authVars, last, syncVars, pageStore, lastReq>>

\* the user types into the name fields
EditProfileForm(firstName, lastName) ==
    /\ page.name = "account"
    /\ page.stage = "ready"
    /\ page' = [page EXCEPT !.form = [first |-> firstName, last |-> lastName],
                            !.event = "edit"]
    /\ UNCHANGED <<lsGuest, authVars, last, syncVars, pageStore, lastReq>>

\* the profile form is submitted: apiUpdateName(firstName, lastName)
ProfileSubmit ==
    /\ page.name = "account"
    /\ page.stage = "ready"
    /\ page.submits < MaxSubmits
    /\ page' = [page EXCEPT
                  !.stage = "saving",
                  !.submits = @ + 1,
                  !.sent = Append(@, Logged(apiUpdateName(Trim(page.form.first),
                                                          Trim(page.form.last)),
                                            "submit", page.form)),
                  !.event = "submit"]
    /\ lastReq' = Sent(sessAuth, localAuth)
    /\ UNCHANGED <<lsGuest, authVars, last, syncVars, pageStore>>

\* the submit's request is answered: 401 clears the session, a 2xx saves
\* the session again with the new names, another status is shown
ProfileAnswered ==
    /\ page.name = "account"
    /\ page.stage = "saving"
    /\ page.sent[Len(page.sent)].status # Pending
    /\ LET status == page.sent[Len(page.sent)].status
           saved == saveAuth(sessAuth, localAuth, getAuth(sessAuth, localAuth), FALSE)
       IN /\ page' = [page EXCEPT
                        !.stage = IF status = 401 THEN "left" ELSE "ready",
                        !.event = IF IsOk(status) THEN "saved" ELSE "notSaved"]
          /\ sessAuth' = CASE status = 401 -> clearAuth[1]
                           [] IsOk(status) -> saved[1]
                           [] OTHER -> sessAuth
          /\ localAuth' = CASE status = 401 -> clearAuth[2]
                            [] IsOk(status) -> saved[2]
                            [] OTHER -> localAuth
    /\ UNCHANGED <<lsGuest, last, syncVars, pageStore, lastReq>>

\* a logged-in customer, with or without an address saved on the device,
\* opens the account page
InitAccount ==
    /\ lsGuest = AbsentCart
    /\ sessAuth = "tok"
    /\ localAuth = NoAuth
    /\ last = [op |-> "none", id |-> 0, arg |-> Num(0), before |-> AbsentCart,
               seen |-> <<>>, fault |-> "none", threw |-> FALSE]
    /\ pc = "idle"
    /\ entries = <<>>
    /\ idx = 0
    /\ synced = 0
    /\ result = NoResult
    /\ reqLog = <<>>
    /\ startCart = AbsentCart
    /\ delivered = [key \in AllKeys |-> 0]
    /\ runs = 0
    /\ audit = FALSE
    /\ pageStore \in [address : RawKinds, pending : {"absent"}]
    /\ lastReq = NoReq
    /\ page = AccountTab([first |-> "Ann", last |-> "Lee"])

NextAccount ==
    \/ \E firstName \in {"Ann", " Ann"}, lastName \in {"Lee"} :
          AccountBoot(firstName, lastName)
    \/ \E status \in Statuses : AccountOrdersAnswered(status)
    \/ AccountListsSettled
    \/ \E by \in {"boot", "submit"}, status \in Statuses : NameUpdateServed(by, status)
    \/ \E firstName \in Names, lastName \in {"", "Lee"} :
          EditProfileForm(firstName, lastName)
    \/ ProfileSubmit
    \/ ProfileAnswered

SpecAccount == InitAccount /\ [][NextAccount]_vars

(***************************************************************************)
(* Properties of the guest cart cache (SpecCache)                          *)
(***************************************************************************)
\* the guest cart as the cache's readers see it
View == getGuestCart(lsGuest)

\* the quantity a cart holds for a key, 0 when it has no entry
QtyOf(cart, key) == IF key \in DOMAIN cart THEN IntOf(cart[key].qty) ELSE 0

\* the cart without one key
Without(cart, key) == [x \in DOMAIN cart \ {key} |-> cart[x]]

\* C2: after any sequence of addGuestItem, setGuestItemQty and
\* removeGuestItem calls, whatever the quantity arguments, every entry of
\* the guest cart read back (getGuestCart, listGuestItems) has a quantity
\* that is a positive integer; the storage itself never holds a quantity
\* <= 0 or a fraction (it holds null where Infinity was written, and that
\* entry is no entry of the cart read back)
C2_QuantityPositive ==
    /\ \A key \in DOMAIN View : IsPosInt(View[key].qty)
    /\ \A i \in 1..Len(listGuestItems(lsGuest)) :
          IsPosInt(listGuestItems(lsGuest)[i].qty)
    /\ \A key \in DOMAIN lsGuest.items :
          lsGuest.items[key].qty.k = "null" \/ IsPosInt(lsGuest.items[key].qty)

\* C2 witness: a call with a zero, negative or non-numeric quantity was
\* made and the cart still has an entry
C2_Witness ==
    /\ last.op \in {"add", "set"}
    /\ last.arg \in {Num(0), Num(-1), NaN}
    /\ last.id \in DOMAIN View
    /\ Cardinality(DOMAIN View) = 2

\* the guest cart the last direct call of the cache found
Before == getGuestCart(last.before)

\* C3: addGuestItem of a positive integer quantity on a product id adds it
\* to the quantity the cart held for that id (0 when it had no entry), and
\* the cart lists exactly one entry for the id
C3_AddAccumulates ==
    (last.op = "add" /\ last.id # 0 /\ IsPosInt(last.arg)) =>
        /\ last.id \in DOMAIN View
        /\ QtyOf(View, last.id) = QtyOf(Before, last.id) + IntOf(last.arg)
        /\ Cardinality({i \in 1..Len(listGuestItems(lsGuest)) :
              listGuestItems(lsGuest)[i].product.id = Num(last.id)}) = 1

\* C3 witness: addGuestItem(p, 2) was called on a cart that held quantity 1
\* for p, and the cart holds 3
C3_Witness ==
    /\ last.op = "add"
    /\ last.arg = Num(2)
    /\ QtyOf(Before, last.id) = 1
    /\ QtyOf(View, last.id) = 3

\* C9: on every guest cart, setGuestItemQty(id, 0) and removeGuestItem(id)
\* leave the same storage, in which id has no entry and every other entry
\* is the one the cart had; and after either call has been made the cart
\* is the cart it found without the id
C9_RemoveIsSetZero ==
    /\ \A id \in IdArgs :
          /\ setGuestItemQty(lsGuest, id, Num(0)) = removeGuestItem(lsGuest, id)
          /\ getGuestCart(removeGuestItem(lsGuest, id)) = Without(View, id)
          /\ getGuestCart(setGuestItemQty(lsGuest, id, Num(0))) = Without(View, id)
    /\ (last.op = "remove" \/ (last.op = "set" /\ last.arg = Num(0))) =>
          View = Without(Before, last.id)

\* C9 witness: removeGuestItem was called on an id that had an entry, and
\* another entry is still there
C9_Witness ==
    /\ last.op = "remove"
    /\ last.id \in DOMAIN Before
    /\ last.id \notin DOMAIN View
    /\ DOMAIN View # {}

\* C10 as claimed: after setGuestItemQty(productId, n) with an integer
\* n >= 1 the cart holds productId with quantity n, whether or not it had
\* an entry before
C10_SetCreatesOrSets ==
    (last.op = "set" /\ last.id # 0 /\ IsPosInt(last.arg)) =>
        (last.id \in DOMAIN View /\ QtyOf(View, last.id) = IntOf(last.arg))

\* C10 amended: setGuestItemQty(productId, n) with an integer n >= 1 sets
\* the quantity of the entry productId has to n and leaves the rest of the
\* entry and the other entries as they were; when productId has no entry,
\* none is created and the cart is the one it was
C10_SetOnlyExisting ==
    (last.op = "set" /\ last.id # 0 /\ IsPosInt(last.arg)) =>
        IF last.id \in DOMAIN Before
        THEN View = [Before EXCEPT ![last.id].qty = last.arg]
        ELSE View = Before

\* C10 witness: setGuestItemQty with n >= 1 was called on an id that has no
\* entry, while the cart has another entry
C10_Witness ==
    /\ last.op = "set"
    /\ last.id # 0
    /\ IsPosInt(last.arg)
    /\ last.id \notin DOMAIN Before
    /\ last.id \notin DOMAIN View
    /\ DOMAIN View # {}

\* C11 as claimed: addGuestItem with a product whose id does not resolve to
\* a positive number (missing, zero, negative, non-numeric) is a no-op: the
\* storage of the guest cart is what the call found
C11_UnresolvedIdNoOp ==
    (last.op = "add" /\ last.id <= 0) => lsGuest = last.before

\* the growth the claim C12 states for a quantity argument: max(1, floor(q)),
\* 1 for an argument that is no number, 0 standing for "without bound"
ClampedFloor(q) ==
    CASE q.k = "num" -> IF q.tw >= 2 THEN q.tw \div 2 ELSE 1
      [] q.k = "inf" -> 0
      [] OTHER -> 1

\* C12 as claimed: for every quantityToAdd, addGuestItem on a product with
\* a positive id grows the quantity of its entry by
\* max(1, floor(quantityToAdd)), so by at least 1
C12_AddGrowsByClampedFloor ==
    (last.op = "add" /\ last.id > 0) =>
        /\ QtyOf(View, last.id) >= QtyOf(Before, last.id) + 1
        /\ ClampedFloor(last.arg) > 0 =>
              QtyOf(View, last.id) = QtyOf(Before, last.id) + ClampedFloor(last.arg)

\* the sum of price times quantity over the keys S of a cart, in halves
RECURSIVE PriceTimesQty(_, _)
PriceTimesQty(cart, S) ==
    IF S = {} THEN 0
    ELSE LET key == CHOOSE x \in S : TRUE
         IN cart[key].product.price.tw * IntOf(cart[key].qty)
               + PriceTimesQty(cart, S \ {key})

\* C13: in every state of the guest cart guestSubtotal() is the sum of
\* cached price times quantity over the entries the cart has, 0 for the
\* empty cart; and after removeGuestItem(id) or setGuestItemQty(id, 0) it is
\* the subtotal the call found less the contribution of the entry of id
C13_SubtotalIsSum ==
    /\ guestSubtotal(lsGuest) = Half(PriceTimesQty(View, DOMAIN View))
    /\ DOMAIN View = {} => guestSubtotal(lsGuest) = Num(0)
    /\ (last.op = "remove" \/ (last.op = "set" /\ last.arg = Num(0))) =>
          guestSubtotal(lsGuest).tw =
             guestSubtotal(last.before).tw
                - PriceTimesQty(Before, DOMAIN Before \cap {last.id})

\* C13 witness: removeGuestItem took the entry of product 2 (price 2,
\* quantity 2) out of a cart that keeps one unit of product 1 (price 1)
C13_Witness ==
    /\ last.op = "remove"
    /\ last.id = 2
    /\ guestSubtotal(last.before) = Num(5)
    /\ guestSubtotal(lsGuest) = Num(1)

\* the last call was one that reaches setGuestCart or clearGuestCart: an
\* add, set or remove with an id that is one, or a clear
Mutating ==
    \/ last.op \in {"add", "set", "remove"} /\ last.id # 0
    \/ last.op = "clear"

\* C14: a mutating call of the cache (on a working localStorage) has
\* written the storage and dispatched cc:cart-changed exactly once, after
\* the write: a listener reading the guest cart during the notification
\* found the storage, and so the cart, the call has left; a clear has left
\* no stored cart, the other calls a stored one; a call that returns at its
\* id test has dispatched nothing
C14_WriteThenNotify ==
    /\ Mutating =>
          /\ ~last.threw
          /\ Len(last.seen) = 1
          /\ last.seen[1] = lsGuest
          /\ getGuestCart(last.seen[1]) = View
          /\ lsGuest.kind = (IF last.op = "clear" THEN "absent" ELSE "json")
    /\ (last.op \in {"add", "set", "remove"} /\ last.id = 0) =>
          last.seen = <<>> /\ lsGuest = last.before

\* C14 witness: an add that changed the cart has notified once, and the
\* listener found the entry just added
C14_Witness ==
    /\ last.op = "add"
    /\ Len(last.seen) = 1
    /\ last.id \in DOMAIN getGuestCart(last.seen[1])
    /\ last.id \notin DOMAIN Before

\* the (productId, quantity) pairs of a cart, by key and by cached id
Pairs(cart) ==
    {<<key, cart[key].product.id, cart[key].qty>> : key \in DOMAIN cart}

C16_WriteFailureSwallowed ==
    (Mutating /\ last.fault # "none") =>
        ~last.threw /\ lsGuest = last.before

(***************************************************************************)
(* Properties of the reads of stored values (SpecRead)                     *)
(***************************************************************************)
\* C17: a read of a stored value that is missing or is no JSON does not
\* throw and gives the default: getGuestCart a cart without items, getAuth
\* null, the read of the cached address null, the read of the pending
\* order null
C17_ReadsFallBack ==
    /\ (last.op # "none" /\ last.raw \in {"absent", "malformed"}) =>
          ~last.threw /\ last.isNull
    /\ lsGuest.kind \in {"absent", "malformed"} => getGuestCart(lsGuest) = NoItems
    /\ AuthKind(AuthRaw(sessAuth, localAuth)) \in {"absent", "malformed"} =>
          getAuth(sessAuth, localAuth) = NoAuth

\* C17 witness: getAuth was called with a session-scoped text that is no
\* JSON, and gave null
C17_Witness ==
    /\ last.op = "getAuth"
    /\ last.raw = "malformed"
    /\ sessAuth = Malformed
    /\ last.isNull
    /\ ~last.threw

(***************************************************************************)
(* Properties of syncGuestCartToServer (Spec)                              *)
(***************************************************************************)
\* the guest cart read at the call of this sync run
StartView == getGuestCart(startCart)

\* the number of 2xx answers in a request log
OkCount(log) == Cardinality({i \in 1..Len(log) : IsOk(log[i].status)})

\* the log positions of the requests sent for entry j
SentFor(j) == {m \in 1..Len(reqLog) : reqLog[m].entry = j}

\* a sync run has gone through its loop and returned without a 401
Completed == pc = "returned" /\ Len(entries) > 0 /\ ~result.unauthorized

\* C18 as claimed: whatever saveAuth, clearAuth and logout calls were made,
\* the auth blob is in at most one of sessionStorage and localStorage
C18_OneScope == ~(sessAuth # NoAuth /\ localAuth # NoAuth)

\* C19: in every state isLoggedIn() is true exactly when the blob getAuth
\* returns carries a non-empty access token, which is when the blob read
\* first (session-scoped, else persistent) is there; a request sent through
\* apiFetch carries the bearer header of that token exactly when
\* isLoggedIn() was true as it was sent; and with the storages as clearAuth
\* (and so logout) leaves them isLoggedIn() is false
C19_LoggedInIffToken ==
    /\ isLoggedIn(sessAuth, localAuth) <=> getAuth(sessAuth, localAuth) # NoAuth
    /\ isLoggedIn(sessAuth, localAuth) <=> (sessAuth # NoAuth \/ localAuth # NoAuth)
    /\ (lastReq.auth # <<>>) <=> lastReq.loggedIn
    /\ lastReq.loggedIn => lastReq.auth = <<"Bearer", lastReq.access>>
    /\ (authHeader(sessAuth, localAuth) # <<>>) <=> isLoggedIn(sessAuth, localAuth)
    /\ ~isLoggedIn(clearAuth[1], clearAuth[2])
    /\ (sessAuth = NoAuth /\ localAuth = NoAuth) => ~isLoggedIn(sessAuth, localAuth)

\* C19 witness: an add request of a sync is in flight with the bearer
\* header, sent while the only blob was the persistent one
C19_Witness ==
    /\ pc = "awaiting"
    /\ sessAuth = NoAuth
    /\ localAuth = "tok"
    /\ lastReq.auth = <<"Bearer", "tok">>
    /\ lastReq.loggedIn

\* C20 as claimed, for syncGuestCartToServer: when an add request of the
\* sync was answered 401, the login handler that awaited the sync ends with
\* the auth blob removed from both storages
C20_UnauthorizedClearsSession ==
    [][(pc = "returned" /\ result.unauthorized /\ pc' = "idle") =>
          (sessAuth' = NoAuth /\ localAuth' = NoAuth)]_vars

\* C1 as claimed: when a sync run has completed, also as the retry of a run
\* that a 401 stopped, for every catalog product the quantity carried by
\* the successful add requests (of this run and of the runs a 401 stopped
\* before it) is the quantity the guest cart held for it
C1_NoDuplicateNoLoss ==
    Completed =>
        \A key \in AllKeys : key > 0 => delivered[key] = QtyOf(StartView, key)

\* C4: when a sync run returns unauthorized, the request answered 401 is
\* the last one sent and the only one answered 401, synced is the number of
\* 2xx answers before it, attempted the number of entries of the guest
\* cart, and the storage of the guest cart is what it was at the call
C4_UnauthorizedStops ==
    (pc = "returned" /\ result.unauthorized) =>
        /\ Len(reqLog) > 0
        /\ reqLog[Len(reqLog)].status = 401
        /\ \A i \in 1..(Len(reqLog) - 1) : reqLog[i].status \in Statuses \ {401}
        /\ result.synced = OkCount(reqLog)
        /\ result.attempted = Cardinality(DOMAIN StartView)
        /\ lsGuest = startCart
        /\ DOMAIN View # {}

\* C4 witness: the second of three entries was answered 401 after one
\* success
C4_Witness ==
    /\ pc = "returned"
    /\ result = [synced |-> 1, attempted |-> 3, unauthorized |-> TRUE]
    /\ Len(reqLog) = 2

\* C5 as claimed: in a completed run, after a request that was answered
\* with a failure other than 401 a request is sent for every remaining
\* entry, synced counts the 2xx answers, attempted is the number of entries
\* and the guest cart is cleared
C5_FailureThenAllRemaining ==
    (Completed /\ \E i \in 1..Len(reqLog) : reqLog[i].status = 500) =>
        /\ \A i \in 1..Len(reqLog) : reqLog[i].status = 500 =>
              \A j \in (reqLog[i].entry + 1)..Len(entries) : SentFor(j) # {}
        /\ result.synced = OkCount(reqLog)
        /\ result.attempted = Len(entries)
        /\ lsGuest = AbsentCart

\* C5 with the entries the loop skips set apart: a failure other than 401
\* does not end the loop: a request
\* answered that way is the last one sent only when no entry with a
\* positive product id remained, and the run then returned; in a completed
\* run with such a failure a request was sent for every entry after the
\* failed one whose product id is positive and for no other, synced counts
\* the 2xx answers only, attempted is the number of all entries and the
\* guest cart is cleared
C5_FailureThenRemainingSendable ==
    /\ (Len(reqLog) > 0 /\ reqLog[Len(reqLog)].status = 500) =>
          /\ Completed
          /\ \A j \in (reqLog[Len(reqLog)].entry + 1)..Len(entries) :
                ~(IntOf(entries[j].product.id) > 0)
    /\ (Completed /\ \E i \in 1..Len(reqLog) : reqLog[i].status = 500) =>
          /\ \A i \in 1..Len(reqLog) : reqLog[i].status = 500 =>
                \A j \in (reqLog[i].entry + 1)..Len(entries) :
                   Cardinality(SentFor(j)) =
                      IF IntOf(entries[j].product.id) > 0 THEN 1 ELSE 0
          /\ result.synced = OkCount(reqLog)
          /\ result.synced < Len(reqLog)
          /\ result.attempted = Len(entries)
          /\ lsGuest = AbsentCart

\* C5 witness: the second of three requests failed, the third was still
\* sent, and the run returned synced 2 of 3
C5_Witness ==
    /\ Completed
    /\ Len(reqLog) = 3
    /\ reqLog[1].status = 200 /\ reqLog[2].status = 500 /\ reqLog[3].status = 200
    /\ result = [synced |-> 2, attempted |-> 3, unauthorized |-> FALSE]

\* C6: syncGuestCartToServer called when not logged in, or with an empty
\* guest cart, returns {synced: 0, attempted: 0}, sends no request and
\* leaves the guest cart storage and both auth storages as they are
C6_GuardedCallNoEffect ==
    [][(pc = "saved" /\ (getAuth(sessAuth, localAuth) = NoAuth \/ DOMAIN View = {})) =>
          /\ pc' = "returned"
          /\ result' = [synced |-> 0, attempted |-> 0, unauthorized |-> FALSE]
          /\ reqLog' = <<>>
          /\ lsGuest' = lsGuest
          /\ sessAuth' = sessAuth
          /\ localAuth' = localAuth
      ]_vars

\* C6 witness: the call has returned at its guard with a guest cart that is
\* not empty, because nobody is logged in
C6_Witness ==
    /\ pc = "returned"
    /\ entries = <<>>
    /\ getAuth(sessAuth, localAuth) = NoAuth
    /\ DOMAIN View # {}

\* C7 as claimed: a completed run has sent exactly one request for each
\* entry of the guest cart, with its product id and quantity, and the
\* guest cart is empty
C7_OneRequestPerEntry ==
    Completed =>
        LET held == StartView
        IN /\ \A key \in DOMAIN held :
                 \E m \in 1..Len(reqLog) :
                    /\ reqLog[m].product_id = key
                    /\ reqLog[m].quantity = QtyOf(held, key)
                    /\ \A n \in 1..Len(reqLog) : reqLog[n].product_id = key => n = m
           /\ DOMAIN View = {}

\* C7 with the entries the loop skips set apart: a completed run has sent
\* exactly one request for each entry
\* of the guest cart whose product id is positive, with that id and the
\* quantity the cart held for it, and no request for any other entry; the
\* guest cart is empty afterwards, the entries without request included
C7_OneRequestPerSendableEntry ==
    Completed =>
        LET held == StartView
        IN /\ \A key \in DOMAIN held :
                 IF key > 0
                 THEN \E m \in 1..Len(reqLog) :
                         /\ reqLog[m].product_id = key
                         /\ reqLog[m].quantity = QtyOf(held, key)
                         /\ \A n \in 1..Len(reqLog) :
                               reqLog[n].product_id = key => n = m
                 ELSE \A m \in 1..Len(reqLog) : reqLog[m].product_id # key
           /\ \A m \in 1..Len(reqLog) : reqLog[m].product_id \in DOMAIN held
           /\ DOMAIN View = {}
           /\ lsGuest = AbsentCart

\* C7 witness: a run completed over a cart that held an accumulated
\* quantity 3 for product 1 and an entry with a negative id: one request,
\* for product 1 with quantity 3
C7_Witness ==
    /\ Completed
    /\ DOMAIN StartView = {1, BadId}
    /\ Len(reqLog) = 1
    /\ reqLog[1].product_id = 1 /\ reqLog[1].quantity = 3 /\ reqLog[1].status = 200

\* C8: the add requests are sent one at a time in the listing order of the
\* guest cart: only the last request sent may be unanswered, and it is
\* exactly while the sync awaits; the requests follow the order of the
\* snapshot, which is listGuestItems() at the call
C8_Sequential ==
    /\ Cardinality({i \in 1..Len(reqLog) : reqLog[i].status = Pending}) <= 1
    /\ \A i \in 1..(Len(reqLog) - 1) :
          /\ reqLog[i].status # Pending
          /\ reqLog[i].entry < reqLog[i + 1].entry
    /\ \A i \in 1..Len(reqLog) :
          /\ reqLog[i].entry \in 1..Len(entries)
          /\ reqLog[i].product_id = IntOf(entries[reqLog[i].entry].product.id)
    /\ (pc = "awaiting") <=>
          (Len(reqLog) > 0 /\ reqLog[Len(reqLog)].status = Pending)
    /\ pc = "awaiting" => entries = listGuestItems(startCart)

\* C8 witness: the third request is in flight, the first two are answered
C8_Witness ==
    /\ pc = "awaiting"
    /\ Len(reqLog) = 3
    /\ reqLog[1].status # Pending /\ reqLog[2].status # Pending
    /\ reqLog[3].status = Pending

(***************************************************************************)
(* Properties of the checkout page (SpecCheckout)                          *)
(***************************************************************************)
\* the ids of the orders the server has created and answered with
CreatedIds == {res.orderId : res \in page.answered} \ {0}

C27_ConfirmAfterCreateAndPay ==
    /\ \A c \in page.confirms :
          /\ c.orderId # 0
          /\ c.orderId \in CreatedIds
          /\ c.paymentIntentId # 0
          /\ c.via = "pay" => c.paymentIntentId \in page.paid
    /\ page.payPc = "returnConfirming" =>
          /\ page.urlPI # 0
          /\ page.marker.orderId # 0
          /\ ConfirmRequest(page.marker.orderId, page.urlPI, "return") \in page.confirms

\* C27 witness: a confirm request from the pay click is in flight for
\* order 2, after one was sent on return from the redirect for order 1
C27_Witness ==
    /\ page.payPc = "confirming"
    /\ ConfirmRequest(2, 2, "pay") \in page.confirms
    /\ \E c \in page.confirms : c.via = "return" /\ c.orderId = 1

(***************************************************************************)
(* Properties of the authenticated cart page (SpecClearCart, SpecAuthCart)  *)
(***************************************************************************)
\* the requests of the running or last clearAuthCart that were answered
\* 401, by position
Unauthorized401(log) == {j \in 1..Len(log) : log[j].status = 401}

\* C24: clearing the authenticated cart sends one DELETE per line of the
\* cart it started from, in order and never two at a time, fetches the cart
\* once after the last DELETE succeeded, sends nothing for an empty cart,
\* and leaves the clear button enabled when it has ended, by success or by
\* failure (runs in which a request was answered 401 are C28's matter)
C24_ClearSequential ==
    (page.name = "cart" /\ page.loaded /\ Unauthorized401(page.clog) = {}) =>
        LET log == page.clog
            items == page.clear.items
        IN /\ \A j \in 1..Len(log) :
                /\ j < Len(log) => IsOk(log[j].status)
                /\ log[j].kind = "DELETE" => j <= Len(items) /\ log[j].item = items[j]
                /\ log[j].kind = "GET" => j = Len(items) + 1
           /\ (page.net[Clearing] # NoCall) <=>
                  (log # <<>> /\ log[Len(log)].status = Pending)
           /\ (page.clear.pc = "idle" /\ log # <<>> /\ IsOk(log[Len(log)].status)) =>
                  (Len(log) = Len(items) + 1 /\ log[Len(log)].kind = "GET")
           /\ page.event = "alreadyEmpty" => (log = <<>> /\ page.net[Clearing] = NoCall)
           /\ page.clear.enabled <=> page.clear.pc = "idle"

\* a cart of two lines was cleared and fetched again, and another clear
\* ended by a failed DELETE
C24_Witness ==
    /\ page.name = "cart" /\ page.loaded
    /\ page.clear.pc = "idle" /\ page.clear.enabled
    /\ Len(page.clog) = 3
    /\ page.clog[3].kind = "GET" /\ IsOk(page.clog[3].status)

\* C28: after a DELETE of the clear was answered 401 the clear sends no
\* further request
C28_StopsAfterUnauthorized ==
    page.name = "cart" =>
        \A j \in Unauthorized401(page.clog) : j = Len(page.clog)

\* C25: when every handler's mutation and refresh has been answered 2xx
\* and none is in flight, the cart the page holds is the server's cart
C25_CartMatchesServer ==
    (page.name = "cart" /\ page.loaded /\ page.allOk
        /\ \A o \in Owners : page.net[o] = NoCall) =>
        page.cart = page.server

(***************************************************************************)
(* Properties of the login handler under fairness (SpecLive)               *)
(***************************************************************************)
\* C22: once the login was answered 2xx and the session saved, the handler
\* reaches the redirect, whatever the sync does, and the stored session is
\* not touched from saveAuth to the redirect
C22_LoginNotBlocked ==
    /\ (pc = "saved") ~> (pc = "idle")
    /\ [][pc \notin {"idle", "login"} => UNCHANGED authVars]_vars

\* the sync threw a network error after the session was saved
C22_Witness ==
    /\ pc = "threw"
    /\ isLoggedIn(sessAuth, localAuth)
    /\ Len(reqLog) > 1

(***************************************************************************)
(* Properties of the sync beside a second tab (SpecTabs)                   *)
(***************************************************************************)
\* C29: when the sync ends its loop and clears the guest cart, every entry
\* of a catalog product the cart holds at that moment was sent by this
\* sync, with the quantity the cart holds for it
C29_ClearedOnlyIfSent ==
    [][(pc = "awaiting" /\ pc' = "returned" /\ ~result'.unauthorized) =>
          \A key \in AllKeys : (key > 0 /\ QtyOf(View, key) > 0) =>
              \E m \in 1..Len(reqLog') :
                  /\ reqLog'[m].product_id = key
                  /\ reqLog'[m].quantity = QtyOf(View, key)]_vars

(***************************************************************************)
(* Properties of the route guard and the return-to value (SpecGuard)       *)
(***************************************************************************)
\* C26: a visitor who is not logged in and opens a protected page is sent
\* to the login page with the file of that page stored as return-to; the
\* login handler's redirect goes to the page stored last (index.html when
\* none is) and leaves no value stored, so that a second consumeReturnTo
\* returns the fallback; logout leaves no value stored
C26_ReturnTo ==
    page.name = "guard" =>
        /\ page.returnTo = page.guarded
        /\ page.event = "guarded" =>
              /\ page.loc.file = "login.html"
              /\ PageOf(page.guarded) \in PROTECTED_PAGES
              /\ ~isLoggedIn(sessAuth, localAuth)
        /\ page.event = "loginRedirect" =>
              /\ page.loc.file =
                    IF page.wanted = NoReturnTo THEN "index.html" ELSE page.wanted
              /\ page.returnTo = NoReturnTo
              /\ consumeReturnTo(page.returnTo, "index.html").value = "index.html"
        /\ page.event = "logout" =>
              /\ page.returnTo = NoReturnTo
              /\ ~isLoggedIn(sessAuth, localAuth)

\* a login has redirected to the checkout page, which the guard had stored
\* when it was opened with a query string
C26_Witness ==
    /\ page.name = "guard"
    /\ page.event = "loginRedirect"
    /\ page.wanted = "checkout.html"
    /\ page.loc.file = "checkout.html"
    /\ isLoggedIn(sessAuth, localAuth)

(***************************************************************************)
(* Properties of the favorite star (SpecStore)                             *)
(***************************************************************************)
\* the click the page acted on last
Acted == page.toggles[page.acted]

\* C23: a click flips the star at once; when its request fails (a status
\* other than 2xx and 401, or a network error) the star and the cached set
\* are what they were before that click; when it succeeds the cached set
\* holds the farm exactly when the star is active
C23_OptimisticWithRollback ==
    page.name = "store" =>
        /\ page.event = "click" => page.star = ~Acted.starBefore
        /\ page.event = "failed" =>
              /\ page.star = Acted.starBefore
              /\ page.cache = Acted.cacheBefore
        /\ page.event = "succeeded" => page.cache = page.star

(***************************************************************************)
(* Properties of the account page (SpecAccount)                            *)
(***************************************************************************)
\* C30: the boot of the account page sends read requests only and leaves
\* the name the server holds as it is; a name update is sent by a submit
\* of the profile form only, with the first and last name of the form
C30_BootOnlyReads ==
    page.name = "account" =>
        /\ \A i \in 1..Len(page.sent) :
              /\ page.sent[i].by = "boot" => page.sent[i].method = "GET"
              /\ page.sent[i].method = "PUT" =>
                    /\ page.sent[i].by = "submit"
                    /\ page.sent[i].body = [first |-> Trim(page.sent[i].entered.first),
                                            last |-> Trim(page.sent[i].entered.last)]
        /\ page.submits = 0 => page.server = page.server0

====
